---- MODULE Spec2Model ----
(***************************************************************************)
(* Layered configuration and profile resolution of the tally-merchant CLI. *)
(*                                                                         *)
(*   SpecResolve  one process invocation (main): the Defaults Provider,    *)
(*                the load of the persisted document, the precedence       *)
(*                resolver, the SDK client construction, the dispatch and  *)
(*                the rendering of the result.                             *)
(*   SpecDoc      the in-memory ConfigFile document and its methods        *)
(*                (new, active_profile, set_active_profile,                *)
(*                set_profile_value, get_profile_value, set_merchant).     *)
(*   SpecCli      config commands run one after the other on the persisted *)
(*                file (config init/list/get/set/path, profile             *)
(*                list/active/use/create, the merchant save).              *)
(*   SpecRace     two invocations whose loads and saves interleave.        *)
(*   SpecToml     a document serialized to TOML and parsed back.           *)
(*   SpecRc       the completion installer's edit of the shell start-up    *)
(*                file, repeated.                                          *)
(***************************************************************************)
EXTENDS Naturals, Sequences, FiniteSets, TLC

VARIABLES
    env,    \* the process environment (read only by the program)
    file,   \* the persisted config file: None (absent) or Some(content)
    run,    \* what the last invocation of main did
    doc,    \* an in-memory ConfigFile value
    last,   \* the last method called on doc and what it returned
    ops,    \* number of methods called on doc so far
    inv,    \* the last config command run to its end, and what it returned
    cmds,   \* number of config commands run so far
    procs,  \* two concurrent invocations: position, command, loaded document
    saves,  \* the invocations that saved, in the order of their saves
    rc      \* the shell start-up file and the installs of the completions

vars == <<env, file, run, doc, last, ops, inv, cmds, procs, saves, rc>>

(***************************************************************************)
(* Option<T>: None is the empty sequence, Some(v) the one-element sequence. *)
(***************************************************************************)
None == <<>>

Some(v) == <<v>>

IsSome(o) == o # <<>>

(***************************************************************************)
(* Bounds of the model.                                                    *)
(***************************************************************************)
\* Number of ConfigFile method calls in one behaviour of SpecDoc.
MaxOps == 3

(***************************************************************************)
(* config_file.rs: the persisted document.                                 *)
(***************************************************************************)
default_version == "1.0.0"

DevnetRpcUrl == "https://api.devnet.solana.com"

MainnetRpcUrl == "https://api.mainnet-beta.solana.com"

LocalnetRpcUrl == "http://127.0.0.1:8899"

\* ProfileConfig { rpc_url, program_id, usdc_mint, merchant, wallet_path }
ProfileConfig(rpc_url, program_id, usdc_mint, merchant, wallet_path) ==
    [rpc_url |-> rpc_url, program_id |-> program_id, usdc_mint |-> usdc_mint,
     merchant |-> merchant, wallet_path |-> wallet_path]

\* Mutant of ConfigFileNew: the seed names an active profile it does not hold.
ConfigFileNewWrongActive ==
    [version |-> default_version,
     defaults |-> [active_profile |-> Some("testnet"),
                   output_format |-> Some("human"),
                   wallet_path |-> None],
     profiles |->
        [n \in {"devnet", "mainnet", "localnet"} |->
            CASE n = "devnet" ->
                    ProfileConfig(DevnetRpcUrl, None,
                        Some("Gh9ZwEmdLJ8DscKNTkTqPbNwLNNBjuSzaG9Vp2KGtKJr"),
                        None, None)
              [] n = "mainnet" ->
                    ProfileConfig(MainnetRpcUrl, None,
                        Some("EPjFWdd5AufqSSqeM2qN1xzybapC8G4wEGGkZwyTDt1v"),
                        None, None)
              [] OTHER ->
                    ProfileConfig(LocalnetRpcUrl, None, None, None, None)]]

\* ConfigFile::new
ConfigFileNew ==
    [version |-> default_version,
     defaults |-> [active_profile |-> Some("devnet"),
                   output_format |-> Some("human"),
                   wallet_path |-> None],
     profiles |->
        [n \in {"devnet", "mainnet", "localnet"} |->
            CASE n = "devnet" ->
                    ProfileConfig(DevnetRpcUrl, None,
                        Some("Gh9ZwEmdLJ8DscKNTkTqPbNwLNNBjuSzaG9Vp2KGtKJr"),
                        None, None)
              [] n = "mainnet" ->
                    ProfileConfig(MainnetRpcUrl, None,
                        Some("EPjFWdd5AufqSSqeM2qN1xzybapC8G4wEGGkZwyTDt1v"),
                        None, None)
              [] OTHER ->
                    ProfileConfig(LocalnetRpcUrl, None, None, None, None)]]

\* ConfigFile::get_profile
get_profile(cfg, name) ==
    IF name \in DOMAIN cfg.profiles THEN Some(cfg.profiles[name]) ELSE None

\* ConfigFile::active_profile
active_profile(cfg) ==
    IF cfg.defaults.active_profile = None
    THEN None
    ELSE get_profile(cfg, cfg.defaults.active_profile[1])

\* ConfigFile::set_active_profile: no check that the profile exists
set_active_profile(cfg, profile_name) ==
    [cfg EXCEPT !.defaults.active_profile = Some(profile_name)]

\* The error texts of set_profile_value and get_profile_value.
NoActiveProfileSetMsg == "No active profile set. Use 'config init' to create one."

NoActiveProfileGetMsg == "No active profile set"

ProfileNotFoundMsg(profile_name) == "Profile '" \o profile_name \o "' not found"

UnknownKeyMsg(key) == "Unknown config key: " \o key

\* The match of set_profile_value: the profile after the assignment, or None
\* for the arm that bails.
SetField(profile, key, value) ==
    CASE key \in {"rpc-url", "rpc_url"} ->
            Some([profile EXCEPT !.rpc_url = value])
      [] key \in {"program-id", "program_id"} ->
            Some([profile EXCEPT !.program_id = Some(value)])
      [] key \in {"usdc-mint", "usdc_mint"} ->
            Some([profile EXCEPT !.usdc_mint = Some(value)])
      [] key = "merchant" ->
            Some([profile EXCEPT !.merchant = Some(value)])
      [] key \in {"wallet-path", "wallet_path"} ->
            Some([profile EXCEPT !.wallet_path = Some(value)])
      [] OTHER -> None

\* Mutant of set_profile_value: a missing profile is reported as "no active
\* profile", as if the profile were looked up through active_profile().
set_profile_value_via_active(cfg, key, value) ==
    IF active_profile(cfg) = None
    THEN [ok |-> FALSE, err |-> NoActiveProfileSetMsg, cfg |-> cfg]
    ELSE LET profile_name == cfg.defaults.active_profile[1]
             updated == SetField(cfg.profiles[profile_name], key, value)
         IN  IF updated = None
             THEN [ok |-> FALSE, err |-> UnknownKeyMsg(key), cfg |-> cfg]
             ELSE [ok |-> TRUE, err |-> "",
                   cfg |-> [cfg EXCEPT !.profiles[profile_name] = updated[1]]]

\* Mutant of set_profile_value: the key is matched before the profile is
\* looked up.
set_profile_value_key_first(cfg, key, value) ==
    IF SetField(ProfileConfig("", None, None, None, None), key, value) = None
    THEN [ok |-> FALSE, err |-> UnknownKeyMsg(key), cfg |-> cfg]
    ELSE IF cfg.defaults.active_profile = None
    THEN [ok |-> FALSE, err |-> NoActiveProfileSetMsg, cfg |-> cfg]
    ELSE LET profile_name == cfg.defaults.active_profile[1]
         IN  IF profile_name \notin DOMAIN cfg.profiles
             THEN [ok |-> FALSE, err |-> ProfileNotFoundMsg(profile_name),
                   cfg |-> cfg]
             ELSE [ok |-> TRUE, err |-> "",
                   cfg |-> [cfg EXCEPT !.profiles[profile_name] =
                       SetField(cfg.profiles[profile_name], key, value)[1]]]

\* Mutant of set_profile_value: the usdc-mint arm writes program_id.
set_profile_value_wrong_field(cfg, key, value) ==
    IF cfg.defaults.active_profile = None
    THEN [ok |-> FALSE, err |-> NoActiveProfileSetMsg, cfg |-> cfg]
    ELSE LET profile_name == cfg.defaults.active_profile[1]
         IN  IF profile_name \notin DOMAIN cfg.profiles
             THEN [ok |-> FALSE, err |-> ProfileNotFoundMsg(profile_name),
                   cfg |-> cfg]
             ELSE LET updated ==
                          SetField(cfg.profiles[profile_name],
                              IF key \in {"usdc-mint", "usdc_mint"}
                              THEN "program_id" ELSE key, value)
                  IN  IF updated = None
                      THEN [ok |-> FALSE, err |-> UnknownKeyMsg(key), cfg |-> cfg]
                      ELSE [ok |-> TRUE, err |-> "",
                            cfg |-> [cfg EXCEPT
                                !.profiles[profile_name] = updated[1]]]

\* Mutant of set_profile_value: the field is assigned in every profile.
set_profile_value_all_profiles(cfg, key, value) ==
    IF cfg.defaults.active_profile = None
    THEN [ok |-> FALSE, err |-> NoActiveProfileSetMsg, cfg |-> cfg]
    ELSE LET profile_name == cfg.defaults.active_profile[1]
         IN  IF profile_name \notin DOMAIN cfg.profiles
             THEN [ok |-> FALSE, err |-> ProfileNotFoundMsg(profile_name),
                   cfg |-> cfg]
             ELSE IF SetField(cfg.profiles[profile_name], key, value) = None
             THEN [ok |-> FALSE, err |-> UnknownKeyMsg(key), cfg |-> cfg]
             ELSE [ok |-> TRUE, err |-> "",
                   cfg |-> [cfg EXCEPT !.profiles =
                       [n \in DOMAIN cfg.profiles |->
                           SetField(cfg.profiles[n], key, value)[1]]]]

\* ConfigFile::set_profile_value: Result<()> and the document afterwards
set_profile_value(cfg, key, value) ==
    IF cfg.defaults.active_profile = None
    THEN [ok |-> FALSE, err |-> NoActiveProfileSetMsg, cfg |-> cfg]
    ELSE LET profile_name == cfg.defaults.active_profile[1]
         IN  IF profile_name \notin DOMAIN cfg.profiles
             THEN [ok |-> FALSE, err |-> ProfileNotFoundMsg(profile_name),
                   cfg |-> cfg]
             ELSE LET updated == SetField(cfg.profiles[profile_name], key, value)
                  IN  IF updated = None
                      THEN [ok |-> FALSE, err |-> UnknownKeyMsg(key), cfg |-> cfg]
                      ELSE [ok |-> TRUE, err |-> "",
                            cfg |-> [cfg EXCEPT
                                !.profiles[profile_name] = updated[1]]]

\* The match of get_profile_value: Some(the Option<String> read), or None for
\* the arm that bails.
GetField(profile, key) ==
    CASE key \in {"rpc-url", "rpc_url"} -> Some(Some(profile.rpc_url))
      [] key \in {"program-id", "program_id"} -> Some(profile.program_id)
      [] key \in {"usdc-mint", "usdc_mint"} -> Some(profile.usdc_mint)
      [] key = "merchant" -> Some(profile.merchant)
      [] key \in {"wallet-path", "wallet_path"} -> Some(profile.wallet_path)
      [] OTHER -> None

\* Mutant of get_profile_value: a missing profile is reported as "no active
\* profile", as if the profile were looked up through active_profile().
get_profile_value_via_active(cfg, key) ==
    IF active_profile(cfg) = None
    THEN [ok |-> FALSE, err |-> NoActiveProfileGetMsg, val |-> None]
    ELSE LET value == GetField(cfg.profiles[cfg.defaults.active_profile[1]], key)
         IN  IF value = None
             THEN [ok |-> FALSE, err |-> UnknownKeyMsg(key), val |-> None]
             ELSE [ok |-> TRUE, err |-> "", val |-> value[1]]

\* ConfigFile::get_profile_value: Result<Option<String>>
get_profile_value(cfg, key) ==
    IF cfg.defaults.active_profile = None
    THEN [ok |-> FALSE, err |-> NoActiveProfileGetMsg, val |-> None]
    ELSE LET profile_name == cfg.defaults.active_profile[1]
         IN  IF profile_name \notin DOMAIN cfg.profiles
             THEN [ok |-> FALSE, err |-> ProfileNotFoundMsg(profile_name),
                   val |-> None]
             ELSE LET value == GetField(cfg.profiles[profile_name], key)
                  IN  IF value = None
                      THEN [ok |-> FALSE, err |-> UnknownKeyMsg(key), val |-> None]
                      ELSE [ok |-> TRUE, err |-> "", val |-> value[1]]

\* ConfigFile::set_merchant
set_merchant(cfg, merchant_pda) == set_profile_value(cfg, "merchant", merchant_pda)

(***************************************************************************)
(* Documents a load can return: the seed, or what a hand-edited or earlier *)
(* written file holds.  `ghost` names no profile.                          *)
(***************************************************************************)
ActiveChoices == {None, Some("devnet"), Some("mainnet"), Some("ghost")}

StoredDoc(active, output_format, program_id) ==
    [ConfigFileNew EXCEPT
        !.defaults.active_profile = active,
        !.defaults.output_format = output_format,
        !.profiles = [n \in DOMAIN @ |-> [@[n] EXCEPT !.program_id = program_id]]]

(***************************************************************************)
(* SpecDoc: the methods of ConfigFile called on one in-memory document.    *)
(***************************************************************************)
Keys ==
    {"rpc-url", "rpc_url", "program-id", "program_id", "usdc-mint", "usdc_mint",
     "merchant", "wallet-path", "wallet_path", "invalid-key", "merchant-ref"}

Values == {"", "http://custom.rpc"}

ProfileNames == {"devnet", "mainnet", "localnet", "ghost"}

NoCall ==
    [op |-> "none", key |-> "", value |-> "", ok |-> TRUE, err |-> "",
     val |-> None, before |-> ConfigFileNew]

NoRun == [ran |-> FALSE]

NoEnv ==
    [TALLY_RPC_URL |-> None, TALLY_PROGRAM_ID |-> None,
     TALLY_DEFAULT_OUTPUT_FORMAT |-> None]

\* No config command has run yet.
NoInvocation ==
    [cmd |-> "none", key |-> "", value |-> "", profile |-> None, name |-> "",
     rpc_url |-> "", program_id |-> None, usdc_mint |-> None, force |-> FALSE,
     ok |-> TRUE, err |-> <<>>, out |-> None, before |-> None,
     writable |-> TRUE, message |-> "", command_ok |-> TRUE]

\* No shell start-up file is looked at.
NoRc ==
    [file |-> None, zsh |-> FALSE, installs |-> 0, modified |-> FALSE,
     before |-> None, initial |-> None, first |-> None]

\* Neither of the two concurrent invocations has started.
NoProcs ==
    [p \in {1, 2} |->
        [pc |-> "start", call |-> NoInvocation, loaded |-> ConfigFileNew,
         seen |-> 0, ok |-> TRUE, err |-> <<>>, saved |-> None]]

InitDoc ==
    /\ doc \in {StoredDoc(a, Some("human"), None) : a \in ActiveChoices}
    /\ last = NoCall
    /\ ops = 0
    /\ env = NoEnv
    /\ file = None
    /\ run = NoRun
    /\ inv = NoInvocation
    /\ cmds = 0
    /\ procs = NoProcs
    /\ saves = <<>>
    /\ rc = NoRc

\* let config = ConfigFile::new();
DocNew ==
    /\ ops < MaxOps
    /\ doc' = ConfigFileNew
    /\ last' = [NoCall EXCEPT !.op = "new", !.before = doc]
    /\ ops' = ops + 1
    /\ UNCHANGED <<env, file, run, inv, cmds, procs, saves, rc>>

\* config.active_profile()
DocActiveProfile ==
    /\ ops < MaxOps
    /\ last' = [NoCall EXCEPT !.op = "active_profile",
                              !.val = active_profile(doc), !.before = doc]
    /\ ops' = ops + 1
    /\ UNCHANGED <<doc, env, file, run, inv, cmds, procs, saves, rc>>

\* config.set_active_profile(name)
DocSetActiveProfile ==
    /\ ops < MaxOps
    /\ \E name \in ProfileNames :
          /\ doc' = set_active_profile(doc, name)
          /\ last' = [NoCall EXCEPT !.op = "set_active_profile",
                                    !.value = name, !.before = doc]
    /\ ops' = ops + 1
    /\ UNCHANGED <<env, file, run, inv, cmds, procs, saves, rc>>

\* config.set_profile_value(key, value)
DocSetProfileValue ==
    /\ ops < MaxOps
    /\ \E key \in Keys, value \in Values :
          LET r == set_profile_value(doc, key, value)
          IN  /\ doc' = r.cfg
              /\ last' = [NoCall EXCEPT !.op = "set_profile_value", !.key = key,
                                        !.value = value, !.ok = r.ok,
                                        !.err = r.err, !.before = doc]
    /\ ops' = ops + 1
    /\ UNCHANGED <<env, file, run, inv, cmds, procs, saves, rc>>

\* config.get_profile_value(key)
DocGetProfileValue ==
    /\ ops < MaxOps
    /\ \E key \in Keys :
          LET r == get_profile_value(doc, key)
          IN  last' = [NoCall EXCEPT !.op = "get_profile_value", !.key = key,
                                     !.ok = r.ok, !.err = r.err, !.val = r.val,
                                     !.before = doc]
    /\ ops' = ops + 1
    /\ UNCHANGED <<doc, env, file, run, inv, cmds, procs, saves, rc>>

\* config.set_merchant(merchant_pda)
DocSetMerchant ==
    /\ ops < MaxOps
    /\ \E value \in Values :
          LET r == set_merchant(doc, value)
          IN  /\ doc' = r.cfg
              /\ last' = [NoCall EXCEPT !.op = "set_merchant", !.key = "merchant",
                                        !.value = value, !.ok = r.ok,
                                        !.err = r.err, !.before = doc]
    /\ ops' = ops + 1
    /\ UNCHANGED <<env, file, run, inv, cmds, procs, saves, rc>>

NextDoc ==
    \/ DocNew
    \/ DocActiveProfile
    \/ DocSetActiveProfile
    \/ DocSetProfileValue
    \/ DocGetProfileValue
    \/ DocSetMerchant

SpecDoc == InitDoc /\ [][NextDoc]_vars

(***************************************************************************)
(* Vocabulary of the properties of the document.                           *)
(***************************************************************************)
\* The keys of keyed access, each with its accepted spellings.
Spellings ==
    {{"rpc-url", "rpc_url"}, {"program-id", "program_id"},
     {"usdc-mint", "usdc_mint"}, {"merchant"}, {"wallet-path", "wallet_path"}}

RecognisedKeys == UNION Spellings

SameSetting(k1, k2) == \E s \in Spellings : k1 \in s /\ k2 \in s

ActiveUnset(cfg) == cfg.defaults.active_profile = None

ActiveResolves(cfg) ==
    /\ cfg.defaults.active_profile # None
    /\ cfg.defaults.active_profile[1] \in DOMAIN cfg.profiles

ActiveDangling(cfg) ==
    /\ cfg.defaults.active_profile # None
    /\ cfg.defaults.active_profile[1] \notin DOMAIN cfg.profiles

IsUnknownKeyError(e, key) == e = "Unknown config key: " \o key

IsNoActiveProfileError(e) ==
    e \in {"No active profile set",
           "No active profile set. Use 'config init' to create one."}

IsProfileNotFoundError(e, name) == e = "Profile '" \o name \o "' not found"

KeyedCalls == {"set_profile_value", "get_profile_value"}

(***************************************************************************)
(* C6. Seed invariant: ConfigFile::new yields exactly the profiles devnet, *)
(* mainnet and localnet, each with a non-empty endpoint, version "1.0.0",  *)
(* and devnet as the active profile, which resolves to the devnet          *)
(* settings.                                                               *)
(***************************************************************************)
C6_SeedInvariant ==
    last.op = "new" =>
        /\ DOMAIN doc.profiles = {"devnet", "mainnet", "localnet"}
        /\ \A n \in DOMAIN doc.profiles : doc.profiles[n].rpc_url # ""
        /\ doc.version = "1.0.0"
        /\ doc.defaults.active_profile = Some("devnet")
        /\ active_profile(doc) = Some(doc.profiles["devnet"])
        /\ doc.profiles["devnet"].rpc_url = "https://api.devnet.solana.com"

C6_Witness ==
    /\ last.op = "new"
    /\ last.before # doc
    /\ active_profile(doc) # None

(***************************************************************************)
(* C7. Set/get consistency: on a document whose active profile resolves,   *)
(* set_profile_value with a recognised key and any value succeeds, and     *)
(* get_profile_value with either spelling of that key then returns the     *)
(* value; set_merchant(v) is set_profile_value("merchant", v).             *)
(***************************************************************************)
C7_SetGetConsistency ==
    /\ (/\ last.op = "set_profile_value"
        /\ last.key \in RecognisedKeys
        /\ ActiveResolves(last.before))
       => /\ last.ok
          /\ doc.defaults.active_profile = last.before.defaults.active_profile
          /\ \A k \in RecognisedKeys :
                SameSetting(k, last.key) =>
                    get_profile_value(doc, k) =
                        [ok |-> TRUE, err |-> "", val |-> Some(last.value)]
    /\ (last.op = "set_merchant" /\ ActiveResolves(last.before))
       => /\ last.ok
          /\ doc = set_profile_value(last.before, "merchant", last.value).cfg
          /\ get_profile_value(doc, "merchant").val = Some(last.value)

C7_Witness ==
    /\ last.op = "set_profile_value"
    /\ last.key = "usdc_mint"
    /\ last.value = "http://custom.rpc"
    /\ last.before.defaults.active_profile = Some("mainnet")
    /\ last.ok
    /\ get_profile_value(doc, "usdc-mint").val = Some("http://custom.rpc")

(***************************************************************************)
(* C8 as claimed: keyed access with an unrecognised key fails with the     *)
(* unknown-key error in every document state, and a failed set leaves the  *)
(* document unchanged.                                                     *)
(***************************************************************************)
C8_UnknownKeyAlwaysUnknownKeyError ==
    (last.op \in KeyedCalls /\ last.key \notin RecognisedKeys)
       => /\ ~last.ok
          /\ IsUnknownKeyError(last.err, last.key)
          /\ doc = last.before

(***************************************************************************)
(* C8 as amended: keyed access with an unrecognised key always fails and   *)
(* leaves the document unchanged; the error is the unknown-key error when  *)
(* the active profile resolves, the no-active-profile error when none is   *)
(* set and the profile-not-found error when the active name is dangling    *)
(* (the profile is looked up before the key is matched).                   *)
(***************************************************************************)
C8_UnknownKeyRejected ==
    (last.op \in KeyedCalls /\ last.key \notin RecognisedKeys)
       => /\ ~last.ok
          /\ doc = last.before
          /\ ActiveResolves(last.before) => IsUnknownKeyError(last.err, last.key)
          /\ ActiveUnset(last.before) => IsNoActiveProfileError(last.err)
          /\ ActiveDangling(last.before) =>
                IsProfileNotFoundError(last.err,
                    last.before.defaults.active_profile[1])

C8_Witness ==
    /\ last.op = "set_profile_value"
    /\ last.key = "invalid-key"
    /\ ActiveUnset(last.before)
    /\ ~last.ok
    /\ IsNoActiveProfileError(last.err)

(***************************************************************************)
(* C9 as claimed: with a dangling active profile, active_profile returns   *)
(* none and keyed access fails with the no-active-profile error.           *)
(***************************************************************************)
C9_DanglingIsNoActiveProfileError ==
    /\ (last.op = "active_profile" /\ ActiveDangling(last.before))
       => last.val = None
    /\ (last.op \in KeyedCalls /\ ActiveDangling(last.before))
       => ~last.ok /\ IsNoActiveProfileError(last.err)

(***************************************************************************)
(* C9 as amended: with a dangling active profile, active_profile returns   *)
(* none and keyed access fails, without a fallback value and without a     *)
(* change of the document, with the profile-not-found error naming the     *)
(* dangling profile, which is not the no-active-profile error.             *)
(***************************************************************************)
C9_DanglingIsProfileNotFound ==
    /\ (last.op = "active_profile" /\ ActiveDangling(last.before))
       => last.val = None
    /\ (last.op \in KeyedCalls /\ ActiveDangling(last.before))
       => /\ ~last.ok
          /\ last.val = None
          /\ doc = last.before
          /\ IsProfileNotFoundError(last.err,
                last.before.defaults.active_profile[1])
          /\ ~IsNoActiveProfileError(last.err)

C9_Witness ==
    /\ last.op = "get_profile_value"
    /\ last.key = "rpc-url"
    /\ last.before.defaults.active_profile = Some("ghost")
    /\ last.err = "Profile 'ghost' not found"

(***************************************************************************)
(* C10. The two failure modes are distinct: set_profile_value with a       *)
(* dangling active profile fails with profile-not-found,                   *)
(* get_profile_value with no active profile set fails with                 *)
(* no-active-profile, and neither changes the document.                    *)
(***************************************************************************)
C10_DistinctFailureModes ==
    /\ (last.op = "set_profile_value" /\ ActiveDangling(last.before))
       => /\ ~last.ok
          /\ IsProfileNotFoundError(last.err,
                last.before.defaults.active_profile[1])
          /\ ~IsNoActiveProfileError(last.err)
          /\ doc = last.before
    /\ (last.op = "get_profile_value" /\ ActiveUnset(last.before))
       => /\ ~last.ok
          /\ IsNoActiveProfileError(last.err)
          /\ \A n \in ProfileNames : ~IsProfileNotFoundError(last.err, n)
          /\ doc = last.before

C10_Witness ==
    /\ last.op = "set_profile_value"
    /\ last.key \in RecognisedKeys
    /\ last.before.defaults.active_profile = Some("ghost")
    /\ last.err = "Profile 'ghost' not found"
    /\ doc = last.before

(***************************************************************************)
(* config.rs: the Defaults Provider.  env::var yields Err for a variable   *)
(* that is not set, modelled as None.                                      *)
(***************************************************************************)
\* Mutant of TallyCliConfigNew: an empty TALLY_RPC_URL counts as unset.
TallyCliConfigNewEmptyAsUnset(e) ==
    [default_rpc_url |->
        IF e.TALLY_RPC_URL = None \/ e.TALLY_RPC_URL = Some("")
        THEN "https://api.devnet.solana.com" ELSE e.TALLY_RPC_URL[1],
     default_output_format |->
        IF e.TALLY_DEFAULT_OUTPUT_FORMAT = None
        THEN "human" ELSE e.TALLY_DEFAULT_OUTPUT_FORMAT[1]]

\* TallyCliConfig::new (the lookback window plays no part in resolution)
TallyCliConfigNew(e) ==
    [default_rpc_url |->
        IF e.TALLY_RPC_URL = None
        THEN "https://api.devnet.solana.com" ELSE e.TALLY_RPC_URL[1],
     default_output_format |->
        IF e.TALLY_DEFAULT_OUTPUT_FORMAT = None
        THEN "human" ELSE e.TALLY_DEFAULT_OUTPUT_FORMAT[1]]

(***************************************************************************)
(* The persisted file.  Its content is a parsable document or text that    *)
(* does not parse.                                                         *)
(***************************************************************************)
Unreadable == [valid |-> FALSE, doc |-> ConfigFileNew]

Stored(d) == [valid |-> TRUE, doc |-> d]

\* ConfigFile::load
ConfigFileLoad(f) ==
    IF f = None
    THEN [ok |-> TRUE, cfg |-> ConfigFileNew, err |-> <<>>]
    ELSE IF f[1].valid
    THEN [ok |-> TRUE, cfg |-> f[1].doc, err |-> <<>>]
    ELSE [ok |-> FALSE, cfg |-> ConfigFileNew,
          err |-> <<"Failed to parse config file: config.toml">>]

(***************************************************************************)
(* config_file_ops.rs: the handlers of the config commands.  A handler is  *)
(* given the persisted file f and returns its Result together with the     *)
(* file it leaves behind.  The config directory is taken to be writable    *)
(* and fs::write to be one step.  The text after the load (`..._body`) is  *)
(* kept apart, for the invocations whose loads and saves interleave.       *)
(***************************************************************************)
\* Mutant of save: the profiles of the file that the document lacks are kept.
save_merging(cfg, f) ==
    IF f = None \/ ~f[1].valid THEN Some(Stored(cfg))
    ELSE Some(Stored([cfg EXCEPT !.profiles =
            [n \in DOMAIN cfg.profiles \cup DOMAIN f[1].doc.profiles |->
                IF n \in DOMAIN cfg.profiles THEN cfg.profiles[n]
                ELSE f[1].doc.profiles[n]]]))

\* ConfigFile::save: the file is overwritten with the document, whatever it
\* held.
save(cfg, f) == Some(Stored(cfg))

\* Result<String> of a handler and the file after it
Failed(err, f) == [ok |-> FALSE, err |-> err, out |-> None, file |-> f]

Succeeded(out, f) == [ok |-> TRUE, err |-> <<>>, out |-> Some(out), file |-> f]

\* Mutant of init: an existing file is overwritten without --force.
init_always(force, f) == Succeeded("Config file initialized", save(ConfigFileNew, f))

\* config_file_ops::init
init(force, f) ==
    IF f # None /\ ~force
    THEN Failed(<<"Config file already exists at: config.toml",
                  "Use --force to overwrite">>, f)
    ELSE Succeeded("Config file initialized", save(ConfigFileNew, f))

\* config_file_ops::list; the output is reduced to the endpoint shown
list(profile_name, f) ==
    LET loaded == ConfigFileLoad(f)
        config == loaded.cfg
    IN  IF ~loaded.ok THEN Failed(loaded.err, f)
        ELSE IF profile_name # None
        THEN (IF get_profile(config, profile_name[1]) = None
              THEN Failed(<<ProfileNotFoundMsg(profile_name[1])>>, f)
              ELSE Succeeded(get_profile(config, profile_name[1])[1].rpc_url, f))
        ELSE (IF active_profile(config) = None
              THEN Failed(<<"No active profile set. Run 'tally-merchant config init'">>, f)
              ELSE Succeeded(active_profile(config)[1].rpc_url, f))

\* Mutant of get: the document is saved after the read.
get_saving(key, profile_name, f) ==
    LET loaded == ConfigFileLoad(f)
        selected == IF profile_name # None
                    THEN set_active_profile(loaded.cfg, profile_name[1])
                    ELSE loaded.cfg
        value == get_profile_value(selected, key)
    IN  IF ~loaded.ok THEN Failed(loaded.err, f)
        ELSE IF ~value.ok THEN Failed(<<value.err>>, f)
        ELSE Succeeded(IF value.val = None THEN "(not set)" ELSE value.val[1],
                       save(loaded.cfg, f))

\* config_file_ops::get
get(key, profile_name, f) ==
    LET loaded == ConfigFileLoad(f)
        selected == IF profile_name # None
                    THEN set_active_profile(loaded.cfg, profile_name[1])
                    ELSE loaded.cfg
        value == get_profile_value(selected, key)
    IN  IF ~loaded.ok THEN Failed(loaded.err, f)
        ELSE IF ~value.ok THEN Failed(<<value.err>>, f)
        ELSE Succeeded(IF value.val = None THEN "(not set)" ELSE value.val[1], f)

\* config_file_ops::set after the load: the Result of set_profile_value and
\* the document handed to save
set_body(config, key, value, profile_name) ==
    LET original_active == config.defaults.active_profile
        selected == IF profile_name # None
                    THEN set_active_profile(config, profile_name[1]) ELSE config
        assigned == set_profile_value(selected, key, value)
    IN  IF ~assigned.ok THEN [ok |-> FALSE, err |-> <<assigned.err>>, cfg |-> config]
        ELSE [ok |-> TRUE, err |-> <<>>,
              cfg |-> IF original_active # None
                      THEN set_active_profile(assigned.cfg, original_active[1])
                      ELSE assigned.cfg]

\* Mutant of set: the document is saved before the value is assigned.
set_saving_first(key, value, profile_name, f) ==
    LET loaded == ConfigFileLoad(f)
        body == set_body(loaded.cfg, key, value, profile_name)
    IN  IF ~loaded.ok THEN Failed(loaded.err, f)
        ELSE IF ~body.ok THEN Failed(body.err, save(loaded.cfg, f))
        ELSE Succeeded("Set " \o key, save(body.cfg, f))

\* config_file_ops::set
set(key, value, profile_name, f) ==
    LET loaded == ConfigFileLoad(f)
        body == set_body(loaded.cfg, key, value, profile_name)
    IN  IF ~loaded.ok THEN Failed(loaded.err, f)
        ELSE IF ~body.ok THEN Failed(body.err, f)
        ELSE Succeeded("Set " \o key, save(body.cfg, f))

\* config_file_ops::path
path(f) == Succeeded("config.toml", f)

\* config_file_ops::list_profiles; the output is reduced to the active name
list_profiles(f) ==
    LET loaded == ConfigFileLoad(f)
    IN  IF ~loaded.ok THEN Failed(loaded.err, f)
        ELSE Succeeded(IF loaded.cfg.defaults.active_profile = None THEN "(none)"
                       ELSE loaded.cfg.defaults.active_profile[1], f)

\* The text of use_profile's error; the names it lists follow the iteration
\* order of the map and are left out.
UseProfileNotFoundMsg(profile_name) ==
    <<"Profile '" \o profile_name \o "' not found.", "Available profiles:",
      "Use 'tally-merchant config profile create' to create a new profile">>

\* Mutant of use_profile_body: the name is not looked up.
use_profile_body_unchecked(config, profile_name) ==
    [ok |-> TRUE, err |-> <<>>, cfg |-> set_active_profile(config, profile_name)]

\* config_file_ops::use_profile after the load
use_profile_body(config, profile_name) ==
    IF profile_name \notin DOMAIN config.profiles
    THEN [ok |-> FALSE, err |-> UseProfileNotFoundMsg(profile_name), cfg |-> config]
    ELSE [ok |-> TRUE, err |-> <<>>, cfg |-> set_active_profile(config, profile_name)]

\* config_file_ops::use_profile
use_profile(profile_name, f) ==
    LET loaded == ConfigFileLoad(f)
        body == use_profile_body(loaded.cfg, profile_name)
    IN  IF ~loaded.ok THEN Failed(loaded.err, f)
        ELSE IF ~body.ok THEN Failed(body.err, f)
        ELSE Succeeded("Active profile set to: " \o profile_name, save(body.cfg, f))

\* HashMap::insert on the profiles of a document
InsertProfile(config, name, profile) ==
    [config EXCEPT !.profiles =
        [n \in DOMAIN config.profiles \cup {name} |->
            IF n = name THEN profile ELSE config.profiles[n]]]

ProfileAlreadyExistsMsg(name) ==
    <<"Profile '" \o name \o "' already exists.",
      "Use 'tally-merchant config set' to modify existing profiles">>

\* Mutant of create_profile_body: a profile of that name is replaced.
create_profile_body_overwriting(config, name, rpc_url, program_id, usdc_mint) ==
    [ok |-> TRUE, err |-> <<>>,
     cfg |-> InsertProfile(config, name,
                 ProfileConfig(rpc_url, program_id, usdc_mint, None, None))]

\* Mutant of create_profile_body: the new profile is made the active one.
create_profile_body_activating(config, name, rpc_url, program_id, usdc_mint) ==
    IF name \in DOMAIN config.profiles
    THEN [ok |-> FALSE, err |-> ProfileAlreadyExistsMsg(name), cfg |-> config]
    ELSE [ok |-> TRUE, err |-> <<>>,
          cfg |-> set_active_profile(
                      InsertProfile(config, name,
                          ProfileConfig(rpc_url, program_id, usdc_mint, None, None)),
                      name)]

\* config_file_ops::create_profile after the load
create_profile_body(config, name, rpc_url, program_id, usdc_mint) ==
    IF name \in DOMAIN config.profiles
    THEN [ok |-> FALSE, err |-> ProfileAlreadyExistsMsg(name), cfg |-> config]
    ELSE [ok |-> TRUE, err |-> <<>>,
          cfg |-> InsertProfile(config, name,
                      ProfileConfig(rpc_url, program_id, usdc_mint, None, None))]

\* config_file_ops::create_profile
create_profile(name, rpc_url, program_id, usdc_mint, f) ==
    LET loaded == ConfigFileLoad(f)
        body == create_profile_body(loaded.cfg, name, rpc_url, program_id, usdc_mint)
    IN  IF ~loaded.ok THEN Failed(loaded.err, f)
        ELSE IF ~body.ok THEN Failed(body.err, f)
        ELSE Succeeded("Profile '" \o name \o "' created", save(body.cfg, f))

\* Mutant of save_merchant_to_config: the merchant is written into a fresh
\* seed, whatever the file holds.
save_merchant_to_config_from_seed(merchant_pda, f, writable) ==
    Succeeded("devnet", save(set_merchant(ConfigFileNew, merchant_pda).cfg, f))

\* init_merchant::save_merchant_to_config: Ok(profile_name).  `writable` tells
\* whether fs::write in ConfigFile::save succeeds; when it does not, the file
\* is left as it was.
save_merchant_to_config(merchant_pda, f, writable) ==
    LET loaded == ConfigFileLoad(f)
        config_file == IF loaded.ok THEN loaded.cfg ELSE ConfigFileNew
        profile_name == IF config_file.defaults.active_profile # None
                        THEN config_file.defaults.active_profile[1] ELSE "devnet"
        assigned == set_merchant(config_file, merchant_pda)
    IN  IF ~assigned.ok THEN Failed(<<assigned.err>>, f)
        ELSE IF ~writable THEN Failed(<<"Failed to write config file: config.toml">>, f)
        ELSE Succeeded(profile_name, save(assigned.cfg, f))

\* init_merchant::execute after the transaction is confirmed: the command
\* returns Ok whatever the save did, with a message about the save.
execute_after_transaction(config_save_result) ==
    [ok |-> TRUE,
     config_message |->
        IF config_save_result.ok
        THEN "Merchant PDA saved to config (profile: "
                \o config_save_result.out[1] \o ")"
        ELSE "Could not save merchant PDA to config: " \o config_save_result.err[1]]

(***************************************************************************)
(* main.rs                                                                 *)
(***************************************************************************)
\* str::to_lowercase on the format names that occur
ToLowercase(str) ==
    CASE str \in {"human", "Human", "HUMAN"} -> "human"
      [] str \in {"json", "Json", "JSON"} -> "json"
      [] str \in {"csv", "Csv", "CSV"} -> "csv"
      [] OTHER -> str

\* parse_output_format
parse_output_format(format_str) ==
    LET lower == ToLowercase(format_str)
    IN  CASE lower = "human" -> [ok |-> TRUE, val |-> "Human", err |-> <<>>]
          [] lower = "json" -> [ok |-> TRUE, val |-> "Json", err |-> <<>>]
          [] lower = "csv" -> [ok |-> TRUE, val |-> "Csv", err |-> <<>>]
          [] OTHER -> [ok |-> FALSE, val |-> "",
                       err |-> <<"Invalid output format: " \o format_str>>]

\* The commands that work on the config file alone, each with the arguments
\* ConfigCommand gives it, and the completions command.
ConfigFileCommands ==
    {"ConfigInit", "ConfigInitForce", "ConfigList", "ConfigGet", "ConfigSet",
     "ConfigPath", "ConfigProfileList", "ConfigProfileActive",
     "ConfigProfileShow", "ConfigProfileUse", "ConfigProfileCreate"}

\* The commands modelled: three that need the SDK client and read only, the
\* commands on the config file, and the completions command.
Commands ==
    {"ConfigShow", "PayeeShow", "DashboardAnalytics", "Completions"}
       \cup ConfigFileCommands

\* Mutant of command_needs_sdk: every config command needs the SDK client.
command_needs_sdk_config_too(command) == command # "Completions"

\* command_needs_sdk
command_needs_sdk(command) ==
    CASE command = "ConfigShow" -> TRUE
      [] command \in ConfigFileCommands -> FALSE
      [] command = "Completions" -> FALSE
      [] OTHER -> TRUE

\* The text of the missing-program-identifier error, line by line.
MissingProgramIdMsg ==
    <<"This command requires connection to Solana.",
      "Program ID not configured. You can fix this by:",
      "1. Set the TALLY_PROGRAM_ID environment variable:",
      "export TALLY_PROGRAM_ID=<your-program-id>",
      "2. Or configure it in your profile:",
      "tally-merchant config init",
      "tally-merchant config set program-id <your-program-id>",
      "3. Or pass it as a CLI flag:",
      "tally-merchant --program-id <your-program-id> <command>",
      "See https://github.com/Tally-Pay/tally-cli for program IDs">>

\* Mutant of ResolveRpcUrl: the active profile is asked before the
\* environment.
ResolveRpcUrlProfileFirst(cli, e, config, config_file) ==
    IF cli.rpc_url # None THEN cli.rpc_url[1]
    ELSE IF active_profile(config_file) # None
    THEN active_profile(config_file)[1].rpc_url
    ELSE config.default_rpc_url

\* main: let rpc_url = cli.rpc_url.or_else(env).or_else(profile).unwrap_or(default)
ResolveRpcUrl(cli, e, config, config_file) ==
    IF cli.rpc_url # None THEN cli.rpc_url[1]
    ELSE IF e.TALLY_RPC_URL # None THEN config.default_rpc_url
    ELSE IF active_profile(config_file) # None
    THEN active_profile(config_file)[1].rpc_url
    ELSE config.default_rpc_url

\* main: let program_id_from_config = cli.program_id.or_else(profile.program_id)
ProgramIdFromConfig(cli, config_file) ==
    IF cli.program_id # None THEN cli.program_id
    ELSE IF active_profile(config_file) # None
    THEN active_profile(config_file)[1].program_id
    ELSE None

\* Mutant of ResolveProgramId: a missing program identifier is passed on as
\* the empty string instead of ending the invocation.
ResolveProgramIdNoError(cli, e, config_file) ==
    LET from_config == ProgramIdFromConfig(cli, config_file)
    IN  IF from_config # None
        THEN [ok |-> TRUE, id |-> from_config[1], err |-> <<>>]
        ELSE [ok |-> TRUE, id |-> "", err |-> <<>>]

\* main: let program_id = if let Some(id) ... else if env is_err ... else ""
ResolveProgramId(cli, e, config_file) ==
    LET from_config == ProgramIdFromConfig(cli, config_file)
    IN  IF from_config # None
        THEN [ok |-> TRUE, id |-> from_config[1], err |-> <<>>]
        ELSE IF e.TALLY_PROGRAM_ID = None
        THEN [ok |-> FALSE, id |-> "", err |-> MissingProgramIdMsg]
        ELSE [ok |-> TRUE, id |-> "", err |-> <<>>]

\* main: the constructor of the SDK client chosen for a program identifier
ClientFor(rpc_url, program_id) ==
    IF program_id = ""
    THEN [ctor |-> "new", rpc_url |-> rpc_url, program_id |-> ""]
    ELSE [ctor |-> "new_with_program_id", rpc_url |-> rpc_url,
          program_id |-> program_id]

\* config_file_ops::show_active_profile
show_active_profile(f) ==
    LET loaded == ConfigFileLoad(f)
    IN  IF ~loaded.ok THEN [ok |-> FALSE, err |-> loaded.err, out |-> None]
        ELSE [ok |-> TRUE, err |-> <<>>,
              out |-> IF loaded.cfg.defaults.active_profile = None
                      THEN Some("(none)")
                      ELSE loaded.cfg.defaults.active_profile]

\* execute_config_commands: the handler called for a command on the config
\* file, with the arguments of the command line modelled:
\*   config init [--force], config list, config get program-id,
\*   config set program-id PidSet, config path, config profile list,
\*   config profile use mainnet,
\*   config profile create staging --rpc-url http://custom.rpc
ConfigCommand(command, f) ==
    CASE command = "ConfigInit" -> init(FALSE, f)
      [] command = "ConfigInitForce" -> init(TRUE, f)
      [] command = "ConfigList" -> list(None, f)
      [] command = "ConfigGet" -> get("program-id", None, f)
      [] command = "ConfigSet" -> set("program-id", "PidSet", None, f)
      [] command = "ConfigPath" -> path(f)
      [] command = "ConfigProfileList" -> list_profiles(f)
      [] command = "ConfigProfileUse" -> use_profile("mainnet", f)
      [] command = "ConfigProfileCreate" ->
            create_profile("staging", "http://custom.rpc", None, None, f)

\* execute_command for the commands modelled: the Result of the handler.
\* The outcome of a handler that talks to the remote service is an input,
\* and so is the outcome of `config profile show`; `completions --print`
\* writes the script to standard output.
execute_command(command, f, sdk) ==
    CASE command = "ConfigProfileActive" -> show_active_profile(f)
      [] command = "Completions" -> [ok |-> TRUE, err |-> <<>>]
      [] command \in ConfigFileCommands \ {"ConfigProfileActive", "ConfigProfileShow"} ->
            [ok |-> ConfigCommand(command, f).ok, err |-> ConfigCommand(command, f).err]
      [] OTHER ->
            IF sdk.handler_ok THEN [ok |-> TRUE, err |-> <<>>]
            ELSE [ok |-> FALSE, err |-> <<"remote request failed">>]

\* execute_dashboard_commands: the endpoint handed to dashboard::execute
DashboardRpcUrl(cli, config) ==
    IF cli.rpc_url # None THEN cli.rpc_url[1] ELSE config.default_rpc_url

\* An Err returned by main itself: the runtime prints it to standard error
\* and the process exits with code 1.
Returned(cli, command, output_format, rpc_url, program_id, client, err) ==
    [ran |-> TRUE, cli |-> cli, command |-> command,
     output_format |-> output_format, rpc_url |-> rpc_url,
     program_id |-> program_id, client |-> client, handler_rpc_url |-> None,
     executed |-> FALSE, ok |-> FALSE, error |-> err, exit_code |-> 1,
     rendering |-> "stderr_main_return"]

\* main: match result { Ok(output) => ..., Err(e) => ... exit(1) }
Rendered(cli, command, output_format, rpc_url, program_id, client, handler_rpc_url, result) ==
    [ran |-> TRUE, cli |-> cli, command |-> command,
     output_format |-> Some(output_format), rpc_url |-> rpc_url,
     program_id |-> program_id, client |-> client,
     handler_rpc_url |-> handler_rpc_url,
     executed |-> TRUE, ok |-> result.ok, error |-> result.err,
     exit_code |-> IF result.ok THEN 0 ELSE 1,
     rendering |->
        IF result.ok
        THEN (IF output_format = "Json" THEN "stdout_json_envelope"
              ELSE "stdout_text")
        ELSE (IF output_format = "Json" THEN "stdout_json_envelope"
              ELSE "stderr_text")]

\* main, from the parse of the command line to the exit of the process
MainRun(cli, command, e, f, sdk) ==
    LET config == TallyCliConfigNew(e)
        loaded == ConfigFileLoad(f)
        config_file == IF loaded.ok THEN loaded.cfg ELSE ConfigFileNew
        default_output_format == parse_output_format(config.default_output_format)
    IN  IF ~default_output_format.ok
        THEN Returned(cli, command, None, None, None, None,
                      default_output_format.err)
        ELSE
        LET output_format ==
                IF cli.output # None THEN cli.output[1]
                ELSE default_output_format.val
        IN  IF ~command_needs_sdk(command)
            THEN Rendered(cli, command, output_format, None, None, None, None,
                          execute_command(command, f, sdk))
            ELSE
            LET rpc_url == ResolveRpcUrl(cli, e, config, config_file)
                program_id == ResolveProgramId(cli, e, config_file)
            IN  IF ~program_id.ok
                THEN Returned(cli, command, Some(output_format), Some(rpc_url),
                              None, None, program_id.err)
                ELSE IF ~sdk.client_ok
                THEN Returned(cli, command, Some(output_format), Some(rpc_url),
                              Some(program_id.id), None,
                              <<"failed to create the SDK client">>)
                ELSE Rendered(cli, command, output_format, Some(rpc_url),
                              Some(program_id.id),
                              Some(ClientFor(rpc_url, program_id.id)),
                              IF command = "DashboardAnalytics"
                              THEN Some(DashboardRpcUrl(cli, config)) ELSE None,
                              execute_command(command, f, sdk))

(***************************************************************************)
(* SpecResolve: invocations of main in an environment and over a persisted *)
(* file.                                                                   *)
(***************************************************************************)
EnvStates ==
    [TALLY_RPC_URL : {None, Some(""), Some("http://env.rpc")},
     TALLY_PROGRAM_ID : {None, Some("PidEnv")},
     TALLY_DEFAULT_OUTPUT_FORMAT : {None, Some("JSON"), Some("xml")}]

FileStates ==
    {None, Some(Unreadable)} \cup
    {Some(Stored(StoredDoc(a, o, p))) :
        a \in ActiveChoices,
        o \in {None, Some("human"), Some("json")},
        p \in {None, Some(""), Some("PidProfile")}}

CliArgs ==
    [rpc_url : {None, Some("http://flag.rpc")},
     program_id : {None, Some("PidFlag")},
     output : {None, Some("Human"), Some("Json"), Some("Csv")}]

SdkOutcomes == [client_ok : BOOLEAN, handler_ok : BOOLEAN]

InitResolve ==
    /\ env \in EnvStates
    /\ file \in FileStates
    /\ run = NoRun
    /\ doc = ConfigFileNew
    /\ last = NoCall
    /\ ops = 0
    /\ inv = NoInvocation
    /\ cmds = 0
    /\ procs = NoProcs
    /\ saves = <<>>
    /\ rc = NoRc

\* The file an invocation leaves behind: the one its handler leaves, when a
\* handler for the config file was executed.
FileAfter(command, f, executed) ==
    IF executed /\ command \in ConfigFileCommands \ {"ConfigProfileActive", "ConfigProfileShow"}
    THEN ConfigCommand(command, f).file ELSE f

\* One invocation per behaviour: a process keeps nothing of an earlier one
\* but the file.  inv.before keeps the file the invocation found.
Main ==
    /\ ~run.ran
    /\ \E cli \in CliArgs, command \in Commands, sdk \in SdkOutcomes :
          /\ run' = MainRun(cli, command, env, file, sdk)
          /\ file' = FileAfter(command, file, run'.executed)
          /\ inv' = [NoInvocation EXCEPT !.cmd = command, !.before = file]
    /\ UNCHANGED <<env, doc, last, ops, cmds, procs, saves, rc>>

NextResolve == Main

SpecResolve == InitResolve /\ [][NextResolve]_vars

(***************************************************************************)
(* Vocabulary of the properties of resolution.                             *)
(***************************************************************************)
\* The document resolution works on: the persisted one, or the seed when
\* there is no file or the file does not parse.
EffectiveDocument ==
    LET found == IF run.ran THEN inv.before ELSE file
    IN  IF found # None /\ found[1].valid THEN found[1].doc ELSE ConfigFileNew

SdkRun == run.ran /\ run.command \in {"ConfigShow", "PayeeShow", "DashboardAnalytics"}

\* The default-output-format variable is unset or names a format.
OutputFormatVariableUsable ==
    \/ env.TALLY_DEFAULT_OUTPUT_FORMAT = None
    \/ env.TALLY_DEFAULT_OUTPUT_FORMAT[1] \in
          {"human", "json", "csv", "Human", "Json", "Csv", "HUMAN", "JSON", "CSV"}

ProgramIdUnavailable ==
    /\ run.cli.program_id = None
    /\ env.TALLY_PROGRAM_ID = None
    /\ \/ ~ActiveResolves(EffectiveDocument)
       \/ active_profile(EffectiveDocument)[1].program_id = None

\* The error names the three ways to supply the program identifier.
IsMissingConfigurationError(err) ==
    {"1. Set the TALLY_PROGRAM_ID environment variable:",
     "2. Or configure it in your profile:",
     "3. Or pass it as a CLI flag:"} \subseteq {err[i] : i \in DOMAIN err}

(***************************************************************************)
(* C1. Endpoint precedence: in every invocation that resolves an endpoint  *)
(* it is the --rpc-url flag if given; else, with TALLY_RPC_URL set (even   *)
(* to the empty string), the Defaults Provider's endpoint; else the        *)
(* endpoint of the active profile if it resolves; else the hardcoded       *)
(* default.  The SDK client is constructed with that endpoint.             *)
(***************************************************************************)
C1_EndpointPrecedence ==
    (SdkRun /\ run.rpc_url # None) =>
        LET url == run.rpc_url[1]
            flag == run.cli.rpc_url
            var == env.TALLY_RPC_URL
        IN  /\ flag # None => url = flag[1]
            /\ (flag = None /\ var # None) =>
                  /\ url = TallyCliConfigNew(env).default_rpc_url
                  /\ url = var[1]
            /\ (flag = None /\ var = None /\ ActiveResolves(EffectiveDocument)) =>
                  url = EffectiveDocument.profiles[
                            EffectiveDocument.defaults.active_profile[1]].rpc_url
            /\ (flag = None /\ var = None /\ ~ActiveResolves(EffectiveDocument)) =>
                  url = "https://api.devnet.solana.com"
            /\ run.client # None => run.client[1].rpc_url = url

C1_Witness ==
    /\ SdkRun
    /\ run.cli.rpc_url = None
    /\ env.TALLY_RPC_URL = None
    /\ file # None
    /\ ActiveResolves(EffectiveDocument)
    /\ run.rpc_url = Some("https://api.mainnet-beta.solana.com")
    /\ run.client # None

(***************************************************************************)
(* C2 as claimed: without --program-id, when TALLY_PROGRAM_ID is set and   *)
(* the active profile carries a program_id, the client works with the      *)
(* identifier of the environment (it is given that identifier, or is       *)
(* constructed without one and reads the variable); the profile's is used  *)
(* only when the variable is absent.                                       *)
(***************************************************************************)
C2_EnvOutranksProfileProgramId ==
    (/\ SdkRun
     /\ run.client # None
     /\ run.cli.program_id = None
     /\ ActiveResolves(EffectiveDocument)
     /\ active_profile(EffectiveDocument)[1].program_id # None)
    => IF env.TALLY_PROGRAM_ID # None
       THEN \/ run.client[1].ctor = "new"
            \/ run.client[1].program_id = env.TALLY_PROGRAM_ID[1]
       ELSE run.client[1].program_id =
                active_profile(EffectiveDocument)[1].program_id[1]

(***************************************************************************)
(* C3 as claimed: an SDK command with no program identifier from the flag, *)
(* the environment or the active profile ends with the                     *)
(* missing-configuration error naming the three remedies, with no client   *)
(* constructed and no command executed; in no other case does this error   *)
(* arise.                                                                  *)
(***************************************************************************)
C3_MissingProgramIdError ==
    /\ (SdkRun /\ ProgramIdUnavailable)
       => /\ ~run.ok
          /\ IsMissingConfigurationError(run.error)
          /\ run.client = None
          /\ ~run.executed
    /\ (run.ran /\ ~(SdkRun /\ ProgramIdUnavailable))
       => ~IsMissingConfigurationError(run.error)

(***************************************************************************)
(* C3 as amended: the same, for invocations whose default-output-format    *)
(* variable is unset or names a format; with an unrecognised value there   *)
(* the invocation ends earlier with the invalid-output-format error, also  *)
(* with no client constructed and no command executed.                     *)
(***************************************************************************)
C3_MissingProgramIdErrorAfterFormat ==
    /\ (SdkRun /\ ProgramIdUnavailable /\ OutputFormatVariableUsable)
       => /\ ~run.ok
          /\ run.exit_code = 1
          /\ IsMissingConfigurationError(run.error)
          /\ run.client = None
          /\ ~run.executed
    /\ (SdkRun /\ ProgramIdUnavailable /\ ~OutputFormatVariableUsable)
       => /\ ~run.ok
          /\ run.error =
                <<"Invalid output format: " \o env.TALLY_DEFAULT_OUTPUT_FORMAT[1]>>
          /\ run.client = None
          /\ ~run.executed
    /\ (run.ran /\ ~(SdkRun /\ ProgramIdUnavailable))
       => ~IsMissingConfigurationError(run.error)

C3_Witness ==
    /\ SdkRun
    /\ ProgramIdUnavailable
    /\ env.TALLY_DEFAULT_OUTPUT_FORMAT = Some("JSON")
    /\ file # None
    /\ ActiveDangling(EffectiveDocument)
    /\ IsMissingConfigurationError(run.error)
    /\ run.client = None

(***************************************************************************)
(* C4 as claimed: whenever --output is given the invocation proceeds with  *)
(* the flag's format, whatever TALLY_DEFAULT_OUTPUT_FORMAT holds.          *)
(***************************************************************************)
C4_OutputFlagWins ==
    (run.ran /\ run.cli.output # None)
       => /\ run.output_format = run.cli.output
          /\ \A i \in DOMAIN run.error :
                run.error[i] # "Invalid output format: "
                                  \o TallyCliConfigNew(env).default_output_format

(***************************************************************************)
(* C5 as claimed: without --output and without the environment variable,   *)
(* defaults.output_format of the config file is the effective output       *)
(* format, and "human" applies only when it is absent.                     *)
(***************************************************************************)
C5_FileDefaultOutputFormat ==
    (/\ run.ran
     /\ run.cli.output = None
     /\ env.TALLY_DEFAULT_OUTPUT_FORMAT = None)
    => LET stored == EffectiveDocument.defaults.output_format
       IN  IF stored = None
           THEN run.output_format = Some("Human")
           ELSE run.output_format = Some(parse_output_format(stored[1]).val)

(***************************************************************************)
(* SpecCli: config commands run one after the other, each to its end, on   *)
(* the persisted file.  `inv` keeps the command, its arguments, its Result *)
(* and the file it found.                                                  *)
(***************************************************************************)
\* Number of commands run in one behaviour of SpecCli.
MaxCmds == 2

CliFileStates ==
    {None, Some(Unreadable)} \cup
    {Some(Stored(StoredDoc(a, Some("human"), None))) : a \in ActiveChoices}

CliKeys == {"rpc-url", "program_id", "merchant", "invalid-key"}

CliProfileOptions == {None, Some("mainnet"), Some("staging"), Some("ghost")}

CliUseNames == {"devnet", "mainnet", "staging", "ghost"}

CliCreateNames == {"staging", "devnet"}

CliCreateUrls == {"", "http://staging.rpc"}

NoFlags == [rpc_url |-> None, program_id |-> None, output |-> None]

InitCli ==
    /\ file \in CliFileStates
    /\ inv = NoInvocation
    /\ cmds = 0
    /\ env = NoEnv
    /\ run = NoRun
    /\ doc = ConfigFileNew
    /\ last = NoCall
    /\ ops = 0
    /\ procs = NoProcs
    /\ saves = <<>>
    /\ rc = NoRc

\* The end of a command: its Result is recorded and the file is as the
\* handler left it.
Finish(call, r) ==
    /\ inv' = [call EXCEPT !.ok = r.ok, !.err = r.err, !.out = r.out, !.before = file]
    /\ file' = r.file
    /\ cmds' = cmds + 1
    /\ UNCHANGED <<env, run, doc, last, ops, procs, saves, rc>>

\* tally-merchant config init [--force]
CliInit ==
    /\ cmds < MaxCmds
    /\ \E force \in BOOLEAN :
          Finish([NoInvocation EXCEPT !.cmd = "init", !.force = force],
                 init(force, file))

\* tally-merchant config list [--profile NAME]
CliList ==
    /\ cmds < MaxCmds
    /\ \E profile \in CliProfileOptions :
          Finish([NoInvocation EXCEPT !.cmd = "list", !.profile = profile],
                 list(profile, file))

\* tally-merchant config get KEY [--profile NAME]
CliGet ==
    /\ cmds < MaxCmds
    /\ \E key \in CliKeys, profile \in CliProfileOptions :
          Finish([NoInvocation EXCEPT !.cmd = "get", !.key = key,
                                      !.profile = profile],
                 get(key, profile, file))

\* tally-merchant config set KEY VALUE [--profile NAME]
CliSet ==
    /\ cmds < MaxCmds
    /\ \E key \in CliKeys, value \in Values, profile \in CliProfileOptions :
          Finish([NoInvocation EXCEPT !.cmd = "set", !.key = key,
                                      !.value = value, !.profile = profile],
                 set(key, value, profile, file))

\* tally-merchant config path
CliPath ==
    /\ cmds < MaxCmds
    /\ Finish([NoInvocation EXCEPT !.cmd = "path"], path(file))

\* tally-merchant config profile list
CliListProfiles ==
    /\ cmds < MaxCmds
    /\ Finish([NoInvocation EXCEPT !.cmd = "list_profiles"], list_profiles(file))

\* tally-merchant config profile active
CliShowActiveProfile ==
    /\ cmds < MaxCmds
    /\ LET r == show_active_profile(file)
       IN  Finish([NoInvocation EXCEPT !.cmd = "show_active_profile"],
                  [ok |-> r.ok, err |-> r.err, out |-> r.out, file |-> file])

\* tally-merchant config profile use NAME
CliUseProfile ==
    /\ cmds < MaxCmds
    /\ \E name \in CliUseNames :
          Finish([NoInvocation EXCEPT !.cmd = "use_profile", !.name = name],
                 use_profile(name, file))

\* tally-merchant config profile create NAME --rpc-url URL [--program-id ID]
\* [--usdc-mint MINT]
CliCreateProfile ==
    /\ cmds < MaxCmds
    /\ \E name \in CliCreateNames, rpc_url \in CliCreateUrls,
          program_id \in {None, Some("PidStaging")},
          usdc_mint \in {None, Some("MintStaging")} :
          Finish([NoInvocation EXCEPT !.cmd = "create_profile", !.name = name,
                                      !.rpc_url = rpc_url,
                                      !.program_id = program_id,
                                      !.usdc_mint = usdc_mint],
                 create_profile(name, rpc_url, program_id, usdc_mint, file))

\* The save of the merchant address at the end of a merchant initialisation
\* that succeeded on chain.
CliSaveMerchant ==
    /\ cmds < MaxCmds
    /\ \E writable \in BOOLEAN :
          LET r == save_merchant_to_config("MerchantPda", file, writable)
              command == execute_after_transaction(r)
          IN  Finish([NoInvocation EXCEPT !.cmd = "save_merchant_to_config",
                                         !.value = "MerchantPda",
                                         !.writable = writable,
                                         !.message = command.config_message,
                                         !.command_ok = command.ok], r)

\* An SDK command that reads only (payee show), without flags: main resolves
\* the endpoint and the program identifier from the file.
CliSdkCommand ==
    /\ cmds < MaxCmds
    /\ LET r == MainRun(NoFlags, "PayeeShow", env, file,
                        [client_ok |-> TRUE, handler_ok |-> TRUE])
       IN  Finish([NoInvocation EXCEPT !.cmd = "sdk_command"],
                  [ok |-> r.ok, err |-> r.error, out |-> r.rpc_url, file |-> file])

NextCli ==
    \/ CliInit
    \/ CliList
    \/ CliGet
    \/ CliSet
    \/ CliPath
    \/ CliListProfiles
    \/ CliShowActiveProfile
    \/ CliUseProfile
    \/ CliCreateProfile
    \/ CliSaveMerchant
    \/ CliSdkCommand

SpecCli == InitCli /\ [][NextCli]_vars

(***************************************************************************)
(* Vocabulary of the properties of the config commands.                    *)
(***************************************************************************)
\* The file can be loaded: it is absent (the seed is returned) or it parses.
Loads(f) == ConfigFileLoad(f).ok

\* The document a load of the file returns.
DocOf(f) == ConfigFileLoad(f).cfg

\* The names of the profiles the persisted file holds.
PersistedNames(f) ==
    IF f # None /\ f[1].valid THEN DOMAIN f[1].doc.profiles ELSE {}

CreatedProfile == ProfileConfig(inv.rpc_url, inv.program_id, inv.usdc_mint, None, None)

(***************************************************************************)
(* C11. profile create with a name the loaded document already holds       *)
(* fails with the already-exists error, hands no changed document on, and  *)
(* leaves the persisted file as it was: nothing is saved and the existing  *)
(* profile is not overwritten.                                             *)
(***************************************************************************)
C11_CreateExistingFails ==
    (/\ inv.cmd = "create_profile"
     /\ Loads(inv.before)
     /\ inv.name \in DOMAIN DocOf(inv.before).profiles)
    => /\ ~inv.ok
       /\ inv.err = ProfileAlreadyExistsMsg(inv.name)
       /\ file = inv.before
       /\ DocOf(file).profiles[inv.name] = DocOf(inv.before).profiles[inv.name]
       /\ create_profile_body(DocOf(inv.before), inv.name, inv.rpc_url,
                              inv.program_id, inv.usdc_mint).cfg
             = DocOf(inv.before)

C11_Witness ==
    /\ inv.cmd = "create_profile"
    /\ inv.name = "staging"
    /\ inv.rpc_url = ""
    /\ "staging" \in PersistedNames(inv.before)
    /\ inv.before[1].doc.profiles["staging"].rpc_url = "http://staging.rpc"
    /\ ~inv.ok
    /\ file = inv.before

Shown(field) == IF field = None THEN "(not set)" ELSE field[1]

ReadOnlyCommands ==
    {"list", "get", "path", "list_profiles", "show_active_profile", "sdk_command"}

(***************************************************************************)
(* C14. A load with no file returns the seed and writes nothing: every     *)
(* read-only invocation leaves the persisted file exactly as it found it   *)
(* -- absent if it was absent, with the same content otherwise -- and,     *)
(* with no file, it reads the values of the seed.  Step by step this       *)
(* covers every sequence of read-only invocations.                         *)
(***************************************************************************)
C14_ReadOnlyWritesNothing ==
    /\ ConfigFileLoad(None) = [ok |-> TRUE, cfg |-> ConfigFileNew, err |-> <<>>]
    /\ inv.cmd \in ReadOnlyCommands =>
          /\ file = inv.before
          /\ inv.before = None => file = None
    /\ (inv.cmd \in ReadOnlyCommands /\ inv.before = None) =>
          /\ inv.cmd = "show_active_profile" => inv.out = Some("devnet")
          /\ inv.cmd = "list_profiles" => inv.out = Some("devnet")
          /\ (inv.cmd = "list" /\ inv.profile = None) => inv.out = Some(DevnetRpcUrl)
          /\ (inv.cmd = "get" /\ inv.profile = None /\ inv.key = "rpc-url")
                => inv.out = Some(DevnetRpcUrl)
          /\ inv.cmd = "sdk_command" => ~inv.ok /\ inv.out = Some(DevnetRpcUrl)

C14_Witness ==
    /\ cmds = 2
    /\ file = None
    /\ inv.before = None
    /\ inv.cmd = "get"
    /\ inv.key = "rpc-url"
    /\ inv.profile = Some("mainnet")
    /\ inv.ok
    /\ inv.out = Some(MainnetRpcUrl)

(***************************************************************************)
(* SpecRace: two invocations of config commands or of the merchant save    *)
(* run at the same time.  Each loads the file (config init looks whether   *)
(* it exists), changes its own in-memory document and saves it; nothing    *)
(* orders the loads and the saves of the two.                              *)
(*   procs[p].loaded   the document p loaded                               *)
(*   procs[p].seen     the number of saves that had happened when p loaded *)
(*   procs[p].saved    Some(document p handed to save), None without save  *)
(***************************************************************************)
RaceFileStates ==
    {None, Some(Unreadable), Some(Stored(ConfigFileNew)),
     Some(Stored(StoredDoc(Some("mainnet"), Some("human"), None))),
     Some(Stored(StoredDoc(None, Some("human"), None)))}

RaceCalls ==
    {[NoInvocation EXCEPT !.cmd = "set", !.key = "rpc-url", !.value = "http://custom.rpc"],
     [NoInvocation EXCEPT !.cmd = "set", !.key = "merchant", !.value = "MerchantPda",
                          !.profile = Some("mainnet")],
     [NoInvocation EXCEPT !.cmd = "set", !.key = "invalid-key", !.value = ""],
     [NoInvocation EXCEPT !.cmd = "use_profile", !.name = "localnet"],
     [NoInvocation EXCEPT !.cmd = "use_profile", !.name = "staging"],
     [NoInvocation EXCEPT !.cmd = "create_profile", !.name = "staging",
                          !.rpc_url = "http://staging.rpc"],
     [NoInvocation EXCEPT !.cmd = "create_profile", !.name = "canary",
                          !.rpc_url = "http://canary.rpc",
                          !.program_id = Some("PidCanary")],
     [NoInvocation EXCEPT !.cmd = "init"],
     [NoInvocation EXCEPT !.cmd = "init", !.force = TRUE],
     [NoInvocation EXCEPT !.cmd = "get", !.key = "rpc-url"],
     [NoInvocation EXCEPT !.cmd = "get", !.key = "merchant",
                          !.profile = Some("staging")],
     [NoInvocation EXCEPT !.cmd = "save_merchant_to_config",
                          !.value = "MerchantPda"]}

\* The first step of a handler: ConfigFile::load()?, for the merchant save
\* ConfigFile::load().unwrap_or_else(|_| ConfigFile::new()), and for config
\* init the look at path.exists() followed by ConfigFile::new().
LoadOf(call, f) ==
    CASE call.cmd = "init" ->
            IF f # None /\ ~call.force
            THEN [ok |-> FALSE, cfg |-> ConfigFileNew,
                  err |-> <<"Config file already exists at: config.toml",
                            "Use --force to overwrite">>]
            ELSE [ok |-> TRUE, cfg |-> ConfigFileNew, err |-> <<>>]
      [] call.cmd = "save_merchant_to_config" ->
            [ok |-> TRUE, err |-> <<>>,
             cfg |-> IF ConfigFileLoad(f).ok THEN ConfigFileLoad(f).cfg
                     ELSE ConfigFileNew]
      [] OTHER -> ConfigFileLoad(f)

\* The commands that end without a save
RaceReadOnly == {"get"}

\* The handler's text between its load and its save.
BodyOf(call, config) ==
    CASE call.cmd = "set" -> set_body(config, call.key, call.value, call.profile)
      [] call.cmd = "use_profile" -> use_profile_body(config, call.name)
      [] call.cmd = "create_profile" ->
            create_profile_body(config, call.name, call.rpc_url, call.program_id,
                                call.usdc_mint)
      [] call.cmd = "init" -> [ok |-> TRUE, err |-> <<>>, cfg |-> config]
      [] call.cmd = "get" ->
            LET selected == IF call.profile # None
                            THEN set_active_profile(config, call.profile[1])
                            ELSE config
                value == get_profile_value(selected, call.key)
            IN  [ok |-> value.ok, err |-> IF value.ok THEN <<>> ELSE <<value.err>>,
                 cfg |-> config]
      [] call.cmd = "save_merchant_to_config" ->
            LET assigned == set_merchant(config, call.value)
            IN  [ok |-> assigned.ok,
                 err |-> IF assigned.ok THEN <<>> ELSE <<assigned.err>>,
                 cfg |-> assigned.cfg]

InitRace ==
    /\ file \in RaceFileStates
    /\ procs = NoProcs
    /\ saves = <<>>
    /\ rc = NoRc
    /\ env = NoEnv
    /\ run = NoRun
    /\ doc = ConfigFileNew
    /\ last = NoCall
    /\ ops = 0
    /\ inv = NoInvocation
    /\ cmds = 0

\* let mut config = ConfigFile::load()?;
RaceLoad(p) ==
    /\ procs[p].pc = "start"
    /\ \E call \in RaceCalls :
          LET loaded == LoadOf(call, file)
          IN  procs' = [procs EXCEPT ![p] =
                  IF loaded.ok
                  THEN [@ EXCEPT !.pc = "loaded", !.call = call,
                                 !.loaded = loaded.cfg, !.seen = Len(saves)]
                  ELSE [@ EXCEPT !.pc = "done", !.call = call, !.ok = FALSE,
                                 !.err = loaded.err, !.seen = Len(saves)]]
    /\ UNCHANGED <<env, file, run, doc, last, ops, inv, cmds, saves, rc>>

\* The handler ends after the load with an error, or with the value it was
\* asked for: nothing is saved.
RaceBail(p) ==
    /\ procs[p].pc = "loaded"
    /\ LET body == BodyOf(procs[p].call, procs[p].loaded)
       IN  /\ ~body.ok \/ procs[p].call.cmd \in RaceReadOnly
           /\ procs' = [procs EXCEPT ![p] =
                           [@ EXCEPT !.pc = "done", !.ok = body.ok, !.err = body.err]]
    /\ UNCHANGED <<env, file, run, doc, last, ops, inv, cmds, saves, rc>>

\* The handler changes its document and calls config.save()
RaceSave(p) ==
    /\ procs[p].pc = "loaded"
    /\ LET body == BodyOf(procs[p].call, procs[p].loaded)
       IN  /\ body.ok
           /\ procs[p].call.cmd \notin RaceReadOnly
           /\ file' = save(body.cfg, file)
           /\ saves' = Append(saves, p)
           /\ procs' = [procs EXCEPT ![p] =
                           [@ EXCEPT !.pc = "done", !.saved = Some(body.cfg)]]
    /\ UNCHANGED <<env, run, doc, last, ops, inv, cmds, rc>>

NextRace ==
    \/ \E p \in {1, 2} : RaceLoad(p)
    \/ \E p \in {1, 2} : RaceBail(p)
    \/ \E p \in {1, 2} : RaceSave(p)

SpecRace == InitRace /\ [][NextRace]_vars

\* The invocation whose save happened last, and the other one.
LastSaver == saves[Len(saves)]

Other(p) == 3 - p

(***************************************************************************)
(* C15. Without locking, the persisted document is always exactly the      *)
(* in-memory document of the invocation whose save happened last: what it  *)
(* loaded with its own change applied, the whole file replaced and nothing *)
(* merged.  When both have saved and the last saver loaded before the      *)
(* other saved, the file is what the last saver's command makes of the     *)
(* document both loaded, so the other's change is absent: a profile only   *)
(* the other created is not in the file.                                   *)
(***************************************************************************)
C15_LastWriterWins ==
    saves # <<>> =>
       LET w == LastSaver
           o == Other(w)
       IN  /\ file = Some(Stored(procs[w].saved[1]))
           /\ procs[w].saved[1] = BodyOf(procs[w].call, procs[w].loaded).cfg
           /\ (Len(saves) = 2 /\ procs[w].seen = 0
                 /\ "init" \notin {procs[w].call.cmd, procs[o].call.cmd}) =>
                 /\ procs[w].loaded = procs[o].loaded
                 /\ file[1].doc = BodyOf(procs[w].call, procs[o].loaded).cfg
                 /\ (/\ procs[o].call.cmd = "create_profile"
                     /\ procs[w].call.name # procs[o].call.name)
                    => procs[o].call.name \notin DOMAIN file[1].doc.profiles
                 /\ (/\ procs[o].call.cmd = "use_profile"
                     /\ procs[w].call.cmd # "use_profile"
                     /\ procs[w].loaded.defaults.active_profile # None)
                    => file[1].doc.defaults.active_profile
                          = procs[w].loaded.defaults.active_profile

C15_Witness ==
    /\ saves = <<1, 2>>
    /\ procs[2].seen = 0
    /\ procs[1].call.cmd = "create_profile"
    /\ procs[1].call.name = "staging"
    /\ procs[2].call.cmd = "create_profile"
    /\ procs[2].call.name = "canary"
    /\ procs[1].pc = "done"
    /\ procs[2].pc = "done"
    /\ "canary" \in DOMAIN file[1].doc.profiles
    /\ "staging" \notin DOMAIN file[1].doc.profiles

SeedNames == {"devnet", "mainnet", "localnet"}

ForcedInit == inv.cmd = "init" /\ inv.force

OptionalFields == {"program_id", "usdc_mint", "merchant", "wallet_path"}

\* The profile `config set` writes to: the one named by --profile, else the
\* active one of the loaded document.
SetTarget ==
    IF inv.profile # None THEN inv.profile
    ELSE DocOf(inv.before).defaults.active_profile

\* An optional field holds a value after the command only if it held one
\* before, or the command is the config set of that field on that profile,
\* or the profile create that was given it.
OptionalFieldsOnlyWhenSet ==
    (inv.cmd \in {"set", "create_profile"} /\ inv.ok) =>
       \A n \in PersistedNames(file), k \in OptionalFields :
          file[1].doc.profiles[n][k] # None =>
             \/ /\ n \in DOMAIN DocOf(inv.before).profiles
                /\ DocOf(inv.before).profiles[n][k] # None
             \/ /\ inv.cmd = "set"
                /\ SameSetting(inv.key, k)
                /\ SetTarget = Some(n)
             \/ /\ inv.cmd = "create_profile"
                /\ n = inv.name
                /\ k \in {"program_id", "usdc_mint"}
                /\ inv[k] # None

(***************************************************************************)
(* C18 as claimed: in every document reached by profile create and config  *)
(* set, every profile has a non-empty endpoint, and an optional field      *)
(* holds a value only if the seed, a profile create or a config set put it *)
(* there.                                                                  *)
(***************************************************************************)
C18_EndpointsNonEmpty ==
    /\ \A n \in PersistedNames(file) : file[1].doc.profiles[n].rpc_url # ""
    /\ OptionalFieldsOnlyWhenSet

(***************************************************************************)
(* C19 as claimed: an invocation exits with 1 when it fails and with 0     *)
(* when it succeeds; with JSON as the output format every error, from a    *)
(* handler or from resolution at process start, is emitted as the JSON     *)
(* error envelope (success = false); with the human format it is printed   *)
(* to standard error.                                                      *)
(***************************************************************************)
C19_ErrorsRenderedInOutputFormat ==
    run.ran =>
       /\ run.exit_code = (IF run.ok THEN 0 ELSE 1)
       /\ (~run.ok /\ run.output_format = Some("Json"))
             => run.rendering = "stdout_json_envelope"
       /\ (~run.ok /\ run.output_format = Some("Human"))
             => run.rendering \in {"stderr_text", "stderr_main_return"}

(***************************************************************************)
(* C20 as claimed: when the config file exists and does not parse, an SDK  *)
(* command fails with the parse error naming the path, passed on as it     *)
(* is; it does not go on with a seed document in place of the file, so no  *)
(* endpoint is resolved and no client is constructed.                      *)
(***************************************************************************)
C20_UnreadableFileStopsInvocation ==
    (SdkRun /\ file = Some(Unreadable)) =>
       /\ ~run.ok
       /\ run.error = ConfigFileLoad(file).err
       /\ run.rpc_url = None
       /\ run.client = None
       /\ ~run.executed

MerchantSave == inv.cmd = "save_merchant_to_config"

SavedMessage(profile_name) == "Merchant PDA saved to config (profile: " \o profile_name \o ")"

\* The merchant save over a file that is absent or parses: the merchant goes
\* to the active profile of the loaded document, which is the name reported;
\* with the active profile unset or dangling, or with a save that fails, the
\* file is as it was and a warning is given in place of the report.
MerchantSavedToActiveProfile ==
    (MerchantSave /\ Loads(inv.before)) =>
       LET old == DocOf(inv.before)
       IN  /\ inv.command_ok
           /\ IF ActiveResolves(old) /\ inv.writable
              THEN LET a == old.defaults.active_profile[1]
                   IN  /\ inv.ok
                       /\ inv.out = Some(a)
                       /\ inv.message = SavedMessage(a)
                       /\ file = Some(Stored([old EXCEPT
                                    !.profiles[a].merchant = Some(inv.value)]))
              ELSE /\ ~inv.ok
                   /\ inv.out = None
                   /\ file = inv.before
                   /\ \A n \in ProfileNames \cup {"staging"} :
                         inv.message # SavedMessage(n)

(***************************************************************************)
(* C21 as claimed: after a merchant creation that succeeded on chain the   *)
(* merchant is written to the merchant field of the active profile of the  *)
(* persisted document and saved, and the profile reported is the one       *)
(* written; when the persisted document has no active profile that         *)
(* resolves (it is unset or dangling, or the file holds no document that   *)
(* parses) or the save fails, nothing is reported as saved, the file is as *)
(* it was, and the command returns success with a warning.                 *)
(***************************************************************************)
C21_MerchantSavedToActiveProfile ==
    /\ MerchantSavedToActiveProfile
    /\ (MerchantSave /\ ~Loads(inv.before)) =>
          /\ inv.command_ok
          /\ ~inv.ok
          /\ inv.out = None
          /\ file = inv.before

(***************************************************************************)
(* C22 as claimed: the endpoint resolved at process start is the endpoint  *)
(* of the whole run: for a dashboard command the endpoint handed to the    *)
(* dashboard handler equals the endpoint the SDK client was constructed    *)
(* with, for every combination of flag, variable and active profile.       *)
(***************************************************************************)
C22_DashboardUsesResolvedEndpoint ==
    (/\ run.ran
     /\ run.command = "DashboardAnalytics"
     /\ run.client # None
     /\ run.handler_rpc_url # None)
    => /\ run.handler_rpc_url = run.rpc_url
       /\ run.handler_rpc_url[1] = run.client[1].rpc_url

(***************************************************************************)
(* config_file.rs: the TOML form of the document.  ConfigFile::save writes *)
(* toml::to_string_pretty(self) and ConfigFile::load reads it back with    *)
(* toml::from_str, both driven by the derived Serialize and Deserialize.   *)
(* The text is kept as its content: the tables it opens and its            *)
(* `key = value` entries, each under the path of its table.  The           *)
(* serializer writes no entry for an Option that is None; the deserializer *)
(* reads a missing Option as None, a missing version as default_version,   *)
(* missing defaults and profiles as their Default, and refuses a profile   *)
(* without rpc_url.  Strings are written and read back as they are.        *)
(***************************************************************************)
DefaultFields == {"active_profile", "output_format", "wallet_path"}

\* The entries of the Option fields of a struct that are Some
OptionEntries(table, struct, fields) ==
    {<<table, k, struct[k][1]>> : k \in {f \in fields : struct[f] # None}}

\* Mutant of TomlSerialize: an Option that is None is written as the empty
\* string.
TomlSerializeNoneAsEmpty(cfg) ==
    [tables |-> {<<"defaults">>} \cup {<<"profiles", n>> : n \in DOMAIN cfg.profiles},
     values |->
        {<<<<>>, "version", cfg.version>>}
        \cup {<<<<"defaults">>, k, IF cfg.defaults[k] = None THEN ""
                                  ELSE cfg.defaults[k][1]>> : k \in DefaultFields}
        \cup UNION {{<<<<"profiles", n>>, "rpc_url", cfg.profiles[n].rpc_url>>}
                    \cup OptionEntries(<<"profiles", n>>, cfg.profiles[n],
                                       {"program_id", "usdc_mint", "merchant",
                                        "wallet_path"})
                    : n \in DOMAIN cfg.profiles}]

\* toml::to_string_pretty(self) for the derived Serialize of ConfigFile
TomlSerialize(cfg) ==
    [tables |-> {<<"defaults">>} \cup {<<"profiles", n>> : n \in DOMAIN cfg.profiles},
     values |->
        {<<<<>>, "version", cfg.version>>}
        \cup OptionEntries(<<"defaults">>, cfg.defaults, DefaultFields)
        \cup UNION {{<<<<"profiles", n>>, "rpc_url", cfg.profiles[n].rpc_url>>}
                    \cup OptionEntries(<<"profiles", n>>, cfg.profiles[n],
                                       {"program_id", "usdc_mint", "merchant",
                                        "wallet_path"})
                    : n \in DOMAIN cfg.profiles}]

\* The value of a key of a table of the text, as an Option
TomlLookup(text, table, key) ==
    LET hits == {e \in text.values : e[1] = table /\ e[2] = key}
    IN  IF hits = {} THEN None ELSE Some((CHOOSE e \in hits : TRUE)[3])

\* toml::from_str for the derived Deserialize of ConfigFile
TomlParse(text) ==
    LET names == {t[2] : t \in {u \in text.tables : Len(u) = 2 /\ u[1] = "profiles"}}
        version == TomlLookup(text, <<>>, "version")
    IN  IF \E n \in names : TomlLookup(text, <<"profiles", n>>, "rpc_url") = None
        THEN [ok |-> FALSE, cfg |-> ConfigFileNew,
              err |-> <<"Failed to parse config file: config.toml">>]
        ELSE [ok |-> TRUE, err |-> <<>>,
              cfg |->
                [version |-> IF version = None THEN default_version ELSE version[1],
                 defaults |->
                    [active_profile |-> TomlLookup(text, <<"defaults">>, "active_profile"),
                     output_format |-> TomlLookup(text, <<"defaults">>, "output_format"),
                     wallet_path |-> TomlLookup(text, <<"defaults">>, "wallet_path")],
                 profiles |->
                    [n \in names |->
                        ProfileConfig(
                            TomlLookup(text, <<"profiles", n>>, "rpc_url")[1],
                            TomlLookup(text, <<"profiles", n>>, "program_id"),
                            TomlLookup(text, <<"profiles", n>>, "usdc_mint"),
                            TomlLookup(text, <<"profiles", n>>, "merchant"),
                            TomlLookup(text, <<"profiles", n>>, "wallet_path"))]]]

(***************************************************************************)
(* SpecToml: a document is serialized and the text is parsed.              *)
(*   doc        the document in memory                                     *)
(*   last.val   Some(text) once the document has been serialized           *)
(*   last.before the document that was serialized                          *)
(***************************************************************************)
TomlProfiles ==
    {ProfileConfig(u, p, m, c, w) :
        u \in {"", "http://custom.rpc"}, p \in {None, Some(""), Some("PidProfile")},
        m \in {None, Some("Mint")}, c \in {None, Some("MerchantPda")},
        w \in {None, Some("~/id.json")}}

TomlProfileNames == {"devnet", "my.net"}

TomlDocuments ==
    {[version |-> v,
      defaults |-> [active_profile |-> a, output_format |-> o, wallet_path |-> w],
      profiles |-> ps] :
        v \in {"1.0.0", "0.9"},
        a \in {None, Some("devnet"), Some("")},
        o \in {None, Some("json")},
        w \in {None, Some("~/id.json")},
        ps \in UNION {[names -> TomlProfiles] : names \in SUBSET TomlProfileNames}}

InitToml ==
    /\ doc \in TomlDocuments
    /\ last = NoCall
    /\ ops = 0
    /\ env = NoEnv
    /\ file = None
    /\ run = NoRun
    /\ inv = NoInvocation
    /\ cmds = 0
    /\ procs = NoProcs
    /\ saves = <<>>
    /\ rc = NoRc

\* let contents = toml::to_string_pretty(self)
TomlSave ==
    /\ last.op = "none"
    /\ last' = [NoCall EXCEPT !.op = "serialize", !.val = Some(TomlSerialize(doc)),
                              !.before = doc]
    /\ UNCHANGED <<doc, ops, env, file, run, inv, cmds, procs, saves, rc>>

\* toml::from_str(&contents)
TomlLoad ==
    /\ last.op = "serialize"
    /\ LET parsed == TomlParse(last.val[1])
       IN  /\ doc' = parsed.cfg
           /\ last' = [last EXCEPT !.op = "parse", !.ok = parsed.ok]
    /\ UNCHANGED <<ops, env, file, run, inv, cmds, procs, saves, rc>>

NextToml == TomlSave \/ TomlLoad

SpecToml == InitToml /\ [][NextToml]_vars

(***************************************************************************)
(* C23. Serialize followed by parse is the identity on documents: the      *)
(* parse succeeds and the document read equals the document written field  *)
(* for field -- version, each of the defaults, the set of profile names    *)
(* and every field of every profile, present or absent.                    *)
(***************************************************************************)
C23_RoundTrip ==
    last.op = "parse" =>
       /\ last.ok
       /\ doc = last.before
       /\ doc.version = last.before.version
       /\ \A k \in DefaultFields : doc.defaults[k] = last.before.defaults[k]
       /\ DOMAIN doc.profiles = DOMAIN last.before.profiles
       /\ \A n \in DOMAIN doc.profiles :
             \A k \in {"rpc_url", "program_id", "usdc_mint", "merchant", "wallet_path"} :
                doc.profiles[n][k] = last.before.profiles[n][k]

C23_Witness ==
    /\ last.op = "parse"
    /\ last.ok
    /\ last.before.version = "0.9"
    /\ last.before.defaults.active_profile = Some("")
    /\ last.before.defaults.output_format = None
    /\ DOMAIN last.before.profiles = {"devnet", "my.net"}
    /\ last.before.profiles["my.net"].program_id = Some("")
    /\ last.before.profiles["devnet"].program_id = None
    /\ last.before.profiles["devnet"].rpc_url = ""
    /\ doc = last.before

(***************************************************************************)
(* completions.rs: the edit of the shell start-up file.  A file content is *)
(* a sequence of pieces: "line" is the text of the line to add, "framework"*)
(* a text that holds one of the zsh framework patterns, "comment" the      *)
(* comment written above an inserted line, "text" any other text, "space"  *)
(* a blank, "CR" a carriage return and "NL" a line feed.                   *)
(***************************************************************************)
\* Longest start-up file, in pieces, before the first install.
MaxRcLen == 4

\* Number of consecutive installs in one behaviour of SpecRc.
MaxInstalls == 3

RcPieces == {"line", "framework", "text", "space", "CR", "NL"}

Whitespace == {"space", "CR"}

\* str::split('\n'): the pieces between the line feeds, the last one included
RECURSIVE SplitNL(_)
SplitNL(s) ==
    IF s = <<>> THEN << <<>> >>
    ELSE LET rest == SplitNL(Tail(s))
         IN  IF Head(s) = "NL" THEN << <<>> >> \o rest
             ELSE << <<Head(s)>> \o Head(rest) >> \o Tail(rest)

\* The carriage return of a line that ended in CR NL is not part of the line.
StripCR(seg) ==
    IF seg # <<>> /\ seg[Len(seg)] = "CR" THEN SubSeq(seg, 1, Len(seg) - 1) ELSE seg

\* str::lines: a line ends at NL or CR NL; the last line needs no ending and
\* keeps a carriage return it ends in
Lines(s) ==
    LET segs == SplitNL(s)
        n == Len(segs)
    IN  [i \in 1..(n - 1) |-> StripCR(segs[i])]
        \o (IF segs[n] = <<>> THEN <<>> ELSE <<segs[n]>>)

RECURSIVE TrimStart(_)
TrimStart(line) ==
    IF line # <<>> /\ Head(line) \in Whitespace THEN TrimStart(Tail(line)) ELSE line

RECURSIVE TrimEnd(_)
TrimEnd(line) ==
    IF line # <<>> /\ line[Len(line)] \in Whitespace
    THEN TrimEnd(SubSeq(line, 1, Len(line) - 1)) ELSE line

\* str::trim
Trim(line) == TrimEnd(TrimStart(line))

\* The line to add, as get_shell_config gives it: one text without blanks
\* around it.
line_to_add == <<"line">>

\* Mutant of append_line: no line feed is put between the content and the
\* line.
append_line_unseparated(content, to_add) == content \o to_add \o <<"NL">>

\* completions::append_line
append_line(content, to_add) ==
    IF content = <<>> \/ content[Len(content)] = "NL"
    THEN content \o to_add \o <<"NL">>
    ELSE content \o <<"NL">> \o to_add \o <<"NL">>

\* trimmed.contains(pattern) for some framework pattern
IsFrameworkLine(line) == \E i \in DOMAIN Trim(line) : Trim(line)[i] = "framework"

RECURSIVE JoinLines(_, _, _, _)
JoinLines(lines, i, pos, to_add) ==
    IF i > Len(lines) THEN <<>>
    ELSE (IF i = pos THEN <<"comment", "NL">> \o to_add \o <<"NL">> ELSE <<>>)
         \o lines[i] \o <<"NL">> \o JoinLines(lines, i + 1, pos, to_add)

\* completions::insert_before_zsh_framework
insert_before_zsh_framework(content, to_add) ==
    LET lines == Lines(content)
        found == {i \in DOMAIN lines : IsFrameworkLine(lines[i])}
    IN  IF found = {} THEN append_line(content, to_add)
        ELSE JoinLines(lines, 1, CHOOSE i \in found : \A j \in found : i <= j, to_add)

\* Mutant of ensure_rc_line: a line counts as present only when it equals the
\* line to add without trimming.
ensure_rc_line_untrimmed(rc_file, zsh, to_add) ==
    LET content == IF rc_file # None THEN rc_file[1] ELSE <<>>
        lines == Lines(content)
    IN  IF \E i \in DOMAIN lines : lines[i] = to_add
        THEN [modified |-> FALSE, file |-> rc_file]
        ELSE [modified |-> TRUE,
              file |-> Some(IF zsh THEN insert_before_zsh_framework(content, to_add)
                            ELSE append_line(content, to_add))]

\* completions::ensure_rc_line: Ok(modified) and the file after it; rc_file is
\* None when the file does not exist, zsh tells whether it is .zshrc
ensure_rc_line(rc_file, zsh, to_add) ==
    LET content == IF rc_file # None THEN rc_file[1] ELSE <<>>
        lines == Lines(content)
    IN  IF \E i \in DOMAIN lines : Trim(lines[i]) = Trim(to_add)
        THEN [modified |-> FALSE, file |-> rc_file]
        ELSE [modified |-> TRUE,
              file |-> Some(IF zsh THEN insert_before_zsh_framework(content, to_add)
                            ELSE append_line(content, to_add))]

(***************************************************************************)
(* SpecRc: the completions are installed again and again over a start-up   *)
(* file that is absent or holds any content of at most MaxRcLen pieces.    *)
(*   rc.file     the file: None when absent, else Some(content)            *)
(*   rc.zsh      the file is .zshrc                                        *)
(*   rc.modified what the last ensure_rc_line returned                     *)
(*   rc.before   the file the last install found                           *)
(*   rc.initial  the file before the first install                         *)
(*   rc.first    the file after the first install                          *)
(***************************************************************************)
RcContents == UNION {[1..n -> RcPieces] : n \in 0..MaxRcLen}

InitRc ==
    /\ \E f \in {None} \cup {Some(c) : c \in RcContents}, zsh \in BOOLEAN :
          rc = [NoRc EXCEPT !.file = f, !.zsh = zsh, !.initial = f]
    /\ env = NoEnv
    /\ file = None
    /\ run = NoRun
    /\ doc = ConfigFileNew
    /\ last = NoCall
    /\ ops = 0
    /\ inv = NoInvocation
    /\ cmds = 0
    /\ procs = NoProcs
    /\ saves = <<>>

\* install_completions: rc_modified = ensure_rc_line(rc_file, rc_line)?
Install ==
    /\ rc.installs < MaxInstalls
    /\ LET r == ensure_rc_line(rc.file, rc.zsh, line_to_add)
       IN  rc' = [rc EXCEPT !.file = r.file, !.modified = r.modified,
                            !.before = rc.file, !.installs = @ + 1,
                            !.first = IF rc.installs = 0 THEN r.file ELSE @]
    /\ UNCHANGED <<env, file, run, doc, last, ops, inv, cmds, procs, saves>>

NextRc == Install

SpecRc == InitRc /\ [][NextRc]_vars

\* The content of a start-up file; an absent file has none.
ContentOf(f) == IF f = None THEN <<>> ELSE f[1]

\* The places of the lines that equal the line to add after trimming
PlacesOfLine(f) ==
    {i \in DOMAIN Lines(ContentOf(f)) : Trim(Lines(ContentOf(f))[i]) = line_to_add}

RECURSIVE DropTrailingCR(_)
DropTrailingCR(line) ==
    IF line # <<>> /\ line[Len(line)] = "CR"
    THEN DropTrailingCR(SubSeq(line, 1, Len(line) - 1)) ELSE line

\* The lines of a file without their endings (NL or CR NL).
PlainLines(f) ==
    [i \in DOMAIN Lines(ContentOf(f)) |-> DropTrailingCR(Lines(ContentOf(f))[i])]

RECURSIVE IsSubsequence(_, _)
IsSubsequence(a, b) ==
    IF a = <<>> THEN TRUE
    ELSE IF b = <<>> THEN FALSE
    ELSE IF Head(a) = Head(b) THEN IsSubsequence(Tail(a), Tail(b))
    ELSE IsSubsequence(a, Tail(b))

IsPrefix(a, b) == Len(a) <= Len(b) /\ SubSeq(b, 1, Len(a)) = a

HasFrameworkLine(f) ==
    \E i \in DOMAIN Lines(ContentOf(f)) : IsFrameworkLine(Lines(ContentOf(f))[i])

(***************************************************************************)
(* C24. The edit of the start-up file is idempotent.  When some line of    *)
(* the file equals the line to add after trimming, ensure_rc_line leaves   *)
(* the file as it is and reports no modification.  After every install the *)
(* line is there, so from the second install on nothing changes: the file  *)
(* is the file after the first install and holds the line as often.  The   *)
(* lines the file had before the first install are all there, in their     *)
(* order, with at most the line and its comment added; when the line is    *)
(* appended the old content is kept to the byte.                           *)
(***************************************************************************)
C24_InstallIdempotent ==
    rc.installs >= 1 =>
       /\ PlacesOfLine(rc.before) # {} => (rc.file = rc.before /\ ~rc.modified)
       /\ PlacesOfLine(rc.before) = {} => rc.modified
       /\ PlacesOfLine(rc.file) # {}
       /\ rc.installs >= 2 => (rc.file = rc.first /\ ~rc.modified)
       /\ Cardinality(PlacesOfLine(rc.file)) = Cardinality(PlacesOfLine(rc.first))
       /\ IsSubsequence(PlainLines(rc.initial), PlainLines(rc.file))
       /\ Len(PlainLines(rc.file)) <= Len(PlainLines(rc.initial)) + 2
       /\ (~rc.zsh \/ ~HasFrameworkLine(rc.initial))
             => IsPrefix(ContentOf(rc.initial), ContentOf(rc.file))

C24_Witness ==
    /\ rc.installs = 3
    /\ rc.zsh
    /\ rc.initial = Some(<<"text", "NL", "framework">>)
    /\ rc.first = Some(<<"text", "NL", "comment", "NL", "line", "NL", "framework", "NL">>)
    /\ rc.file = rc.first
    /\ ~rc.modified

\* A config set that named a profile with --profile and succeeded
SetWithProfile == inv.cmd = "set" /\ inv.ok /\ inv.profile # None

(***************************************************************************)
(* C25. config set KEY VALUE --profile NAME writes into profile NAME only  *)
(* and restores the original active profile before it saves: the persisted *)
(* defaults.active_profile after the command is the one before it, also    *)
(* when it was unset, and only profile NAME differs.                       *)
(***************************************************************************)
C25_SetWithProfileKeepsActive ==
    SetWithProfile =>
       /\ DocOf(file).defaults.active_profile = DocOf(inv.before).defaults.active_profile
       /\ \A n \in PersistedNames(file) \ {inv.profile[1]} :
             DocOf(file).profiles[n] = DocOf(inv.before).profiles[n]

\* An invocation of a command on the config file alone, or of completions
ConfigFileRun == run.ran /\ ~command_needs_sdk(run.command)

FailedSet == inv.cmd = "set" /\ ~inv.ok

(***************************************************************************)
(* C27. A config set that fails before it saves performs no save: with an  *)
(* unknown key, with --profile naming a profile that does not exist, with  *)
(* no active profile or with an active profile that names no profile, and  *)
(* with a file that does not parse, the command returns an error and the   *)
(* persisted file is what it was before the invocation; no file is created *)
(* when there was none.                                                    *)
(***************************************************************************)
C27_FailedSetSavesNothing ==
    /\ FailedSet => file = inv.before
    /\ (FailedSet /\ inv.before = None) => file = None
    /\ (inv.cmd = "set" /\ ~Loads(inv.before)) => ~inv.ok
    /\ (inv.cmd = "set" /\ Loads(inv.before)) =>
          /\ SetTarget = None => (~inv.ok /\ IsNoActiveProfileError(inv.err[1]))
          /\ (SetTarget # None /\ SetTarget[1] \notin DOMAIN DocOf(inv.before).profiles)
                => (~inv.ok /\ IsProfileNotFoundError(inv.err[1], SetTarget[1]))
          /\ (SetTarget # None /\ SetTarget[1] \in DOMAIN DocOf(inv.before).profiles
                /\ inv.key \notin RecognisedKeys)
                => (~inv.ok /\ IsUnknownKeyError(inv.err[1], inv.key))

\* An unknown key given for a profile that exists, with no file: none is created.
C27_Witness ==
    /\ FailedSet
    /\ inv.before = None
    /\ inv.key = "invalid-key"
    /\ inv.profile = Some("mainnet")
    /\ file = None

\* A set_profile_value that returned Ok
SuccessfulSetValue == last.op = "set_profile_value" /\ last.ok

\* The field of a profile that a recognised key names
FieldOfKey(key) ==
    CASE key \in {"rpc-url", "rpc_url"} -> "rpc_url"
      [] key \in {"program-id", "program_id"} -> "program_id"
      [] key \in {"usdc-mint", "usdc_mint"} -> "usdc_mint"
      [] key = "merchant" -> "merchant"
      [] key \in {"wallet-path", "wallet_path"} -> "wallet_path"

ProfileFields == {"rpc_url", "program_id", "usdc_mint", "merchant", "wallet_path"}

(***************************************************************************)
(* C28. A successful setValue(doc, key, v) changes one field, the one      *)
(* named by key, of one profile, the active one: that field holds v        *)
(* afterwards, and version, defaults with active_profile, the set of       *)
(* profile names, every other profile and every other field of the active  *)
(* profile are what they were.                                             *)
(***************************************************************************)
C28_SetValueChangesOneField ==
    SuccessfulSetValue =>
       /\ ActiveResolves(last.before)
       /\ last.key \in RecognisedKeys
       /\ LET before == last.before
              active == before.defaults.active_profile[1]
              field == FieldOfKey(last.key)
          IN  /\ doc.version = before.version
              /\ doc.defaults = before.defaults
              /\ DOMAIN doc.profiles = DOMAIN before.profiles
              /\ \A n \in DOMAIN before.profiles \ {active} :
                    doc.profiles[n] = before.profiles[n]
              /\ \A g \in ProfileFields \ {field} :
                    doc.profiles[active][g] = before.profiles[active][g]
              /\ doc.profiles[active][field] =
                    (IF field = "rpc_url" THEN last.value ELSE Some(last.value))

C28_Witness ==
    /\ SuccessfulSetValue
    /\ last.key = "wallet-path"
    /\ last.value = "http://custom.rpc"
    /\ last.before.defaults.active_profile = Some("mainnet")
    /\ last.before.profiles["mainnet"].wallet_path = None
    /\ doc.profiles["mainnet"].wallet_path = Some("http://custom.rpc")
    /\ doc # last.before

\* The persisted document names an active profile that it does not hold.
PersistedDangling(f) == f # None /\ f[1].valid /\ ActiveDangling(f[1].doc)

(***************************************************************************)
(* C29. From no file, the seed document or another document whose active   *)
(* profile is unset or resolves, no config init, config set with or        *)
(* without --profile, config get, profile create, profile use or merchant  *)
(* save, run alone or with its load and its whole-file save interleaved    *)
(* with those of a second invocation, persists a document whose            *)
(* active_profile names a profile that the document does not hold; nor     *)
(* does an invocation hand such a document to save.                        *)
(***************************************************************************)
C29_NeverPersistsDanglingActive ==
    /\ ~PersistedDangling(file)
    /\ \A p \in {1, 2} :
          procs[p].saved # None => ~ActiveDangling(procs[p].saved[1])

\* Interleaved: a forced config init loads nothing and saves the seed, then
\* the merchant save that had loaded the document with mainnet active saves
\* over it.
C29_Witness ==
    /\ Len(saves) = 2
    /\ procs[LastSaver].seen = 0
    /\ procs[LastSaver].call.cmd = "save_merchant_to_config"
    /\ procs[Other(LastSaver)].call.cmd = "init"
    /\ procs[Other(LastSaver)].saved = Some(ConfigFileNew)
    /\ file[1].doc.defaults.active_profile = Some("mainnet")
    /\ file[1].doc.profiles["mainnet"].merchant = Some("MerchantPda")

\* An invocation that resolved an endpoint with TALLY_RPC_URL set and no
\* --rpc-url flag
EnvEndpointRun ==
    /\ run.ran
    /\ run.rpc_url # None
    /\ run.cli.rpc_url = None
    /\ env.TALLY_RPC_URL # None

(***************************************************************************)
(* C30. Whenever TALLY_RPC_URL is set and no --rpc-url flag is given, the  *)
(* resolved endpoint is the content of the variable, the empty string when *)
(* it is set to empty: never the hardcoded default and never the endpoint  *)
(* of the active profile.  The client, when one is constructed, is given   *)
(* that endpoint.                                                          *)
(***************************************************************************)
C30_EnvEndpointLiteral ==
    EnvEndpointRun =>
       /\ run.rpc_url = env.TALLY_RPC_URL
       /\ run.rpc_url[1] # "https://api.devnet.solana.com"
       /\ ActiveResolves(EffectiveDocument) =>
             run.rpc_url[1] # active_profile(EffectiveDocument)[1].rpc_url
       /\ run.client # None => run.client[1].rpc_url = env.TALLY_RPC_URL[1]

C30_Witness ==
    /\ EnvEndpointRun
    /\ env.TALLY_RPC_URL = Some("")
    /\ inv.before # None
    /\ EffectiveDocument.defaults.active_profile = Some("mainnet")
    /\ run.rpc_url = Some("")
    /\ run.client # None
    /\ run.client[1].rpc_url = ""
    /\ run.executed

====
